---- MODULE Spec2Model ----
(***************************************************************************)
(* ResumeRAG: resume upload, keyword search and job matching over a        *)
(* relational store.  The module models the text-relevance functions       *)
(* (routes/search.js, routes/jobs.js), the resume routes                   *)
(* (routes/resumes.js) and the idempotency middleware                      *)
(* (middleware/idempotency.js).  Texts are strings; a character of a text  *)
(* is a string of length one.                                              *)
(***************************************************************************)
EXTENDS Integers, Sequences, FiniteSets, TLC

VARIABLES
    users,          \* users table: a set of rows
    resumes,        \* resumes table: a set of rows
    nextResumeId,   \* AUTOINCREMENT counter of the resumes table
    now,            \* CURRENT_TIMESTAMP / new Date(), a logical clock
    jobs,           \* jobs table: a set of rows
    nextJobId,      \* AUTOINCREMENT counter of the jobs table
    search_queries, \* search_queries table: the rows in insertion order
    job_matches,    \* job_matches table: the rows in insertion order
    applications,   \* applications table: a set of rows
    idempotency_keys, \* idempotency_keys table: a set of rows, key is the primary key
    reqs,           \* the POST requests received, in order of arrival, with their progress
    resp,           \* the response a route handler has just sent
    simA, simB,     \* the two texts handed to calculateSimilarity
    simOut          \* <<>> before the call, <<f(A,B), f(B,A), f(A,A)>> after it

storeVars == <<users, resumes, nextResumeId, now, resp>>
simVars == <<simA, simB, simOut>>
rankVars == <<jobs, nextJobId, search_queries, job_matches>>
idemVars == <<applications, idempotency_keys, reqs>>
vars == <<users, resumes, nextResumeId, now, resp, jobs, nextJobId, search_queries,
          job_matches, applications, idempotency_keys, reqs, simA, simB, simOut>>

----------------------------------------------------------------------------
(* Characters and strings                                                  *)

LowerLetters == <<"a","b","c","d","e","f","g","h","i","j","k","l","m",
                  "n","o","p","q","r","s","t","u","v","w","x","y","z">>
UpperLetters == <<"A","B","C","D","E","F","G","H","I","J","K","L","M",
                  "N","O","P","Q","R","S","T","U","V","W","X","Y","Z">>
Range(f) == {f[i] : i \in DOMAIN f}
Letters == Range(LowerLetters) \cup Range(UpperLetters)
Digits == {"0","1","2","3","4","5","6","7","8","9"}
\* \w of a JavaScript regular expression, and the characters natural's
\* WordTokenizer keeps inside a token
WordChars == Letters \cup Digits \cup {"_"}
\* every character of the texts of this model
Alphabet == WordChars \cup {" ", ".", ",", "@", "-", "!", "?", "%", "+", "|", "/", "#"}

Char(s, i) == SubSeq(s, i, i)

\* String.prototype.toLowerCase on one character
LowerOf(c) ==
    IF c \in Range(UpperLetters)
    THEN LowerLetters[CHOOSE i \in DOMAIN UpperLetters : UpperLetters[i] = c]
    ELSE c

RECURSIVE ToLowerFrom(_, _, _)
\* the characters lo..hi of s in lower case
ToLowerFrom(s, lo, hi) ==
    IF lo > hi THEN ""
    ELSE IF lo = hi THEN LowerOf(Char(s, lo))
    ELSE LET mid == (lo + hi) \div 2
         IN  ToLowerFrom(s, lo, mid) \o ToLowerFrom(s, mid + 1, hi)
\* String.prototype.toLowerCase
toLowerCase(s) == ToLowerFrom(s, 1, Len(s))

\* s.split(sep) for a one-character separator: the pieces between the
\* separators, empty pieces kept.  keepSet is the set of characters that do
\* not separate.
split(s, keepSet) ==
    LET seps == {i \in 1..Len(s) : Char(s, i) \notin keepSet}
        n == Cardinality(seps)
        sepAt(k) == IF k = 0 THEN 0
                    ELSE IF k = n + 1 THEN Len(s) + 1
                    ELSE CHOOSE i \in seps : Cardinality({j \in seps : j < i}) = k - 1
    IN  [k \in 1..(n + 1) |-> SubSeq(s, sepAt(k - 1) + 1, sepAt(k) - 1)]

NonEmpty(piece) == piece # ""

\* String.prototype.includes
includes(s, sub) ==
    \E i \in 1..(Len(s) - Len(sub) + 1) : SubSeq(s, i, i + Len(sub) - 1) = sub

----------------------------------------------------------------------------
(* Numbers: a JavaScript number that is the quotient of two naturals is a  *)
(* fraction in lowest terms; 0/0 is NaN.                                   *)

RECURSIVE Gcd(_, _)
Gcd(a, b) == IF b = 0 THEN a ELSE Gcd(b, a % b)

NaN == [num |-> 0, den |-> 0]
IsNaN(x) == x.den = 0 /\ x.num = 0
\* m / n for naturals m <= n or n = 0 = m
Quot(m, n) ==
    IF n = 0 THEN (IF m = 0 THEN NaN ELSE [num |-> 1, den |-> 0])
    ELSE [num |-> m \div Gcd(m, n), den |-> n \div Gcd(m, n)]
\* x > y, x >= y on numbers: every comparison with NaN is false
Gt(x, y) == ~IsNaN(x) /\ ~IsNaN(y) /\ x.num * y.den > y.num * x.den
Ge(x, y) == ~IsNaN(x) /\ ~IsNaN(y) /\ x.num * y.den >= y.num * x.den
Zero == Quot(0, 1)
One == Quot(1, 1)

----------------------------------------------------------------------------
(* routes/search.js                                                        *)

\* natural.WordTokenizer.tokenize: split on runs of characters that are not
\* word characters, empty pieces dropped
tokenize(s) == SelectSeq(split(s, WordChars), NonEmpty)

stopWords == {"the", "a", "an", "and", "or", "but", "in", "on", "at", "to",
              "for", "of", "with", "by"}
KeepToken(token) == Len(token) > 2 /\ token \notin stopWords
filteredTokens(text) == SelectSeq(tokenize(toLowerCase(text)), KeepToken)

\* calculateSimilarity dividing by the size of the first set, not of the union
calculateSimilarity_OverFirst(text1, text2) ==
    LET set1 == Range(filteredTokens(text1))
        set2 == Range(filteredTokens(text2))
        intersection == {x \in set1 : x \in set2}
    IN  Quot(Cardinality(intersection), Cardinality(set1))

calculateSimilarity(text1, text2) ==
    LET set1 == Range(filteredTokens(text1))
        set2 == Range(filteredTokens(text2))
        intersection == {x \in set1 : x \in set2}
        union == set1 \cup set2
    IN  Quot(Cardinality(intersection), Cardinality(union))

----------------------------------------------------------------------------
(* routes/resumes.js: PII redaction of GET /api/resumes/:id                *)

IsWordAt(s, i) == i >= 1 /\ i <= Len(s) /\ Char(s, i) \in WordChars
\* \b before position i (1..Len(s)+1)
WordBoundary(s, i) == IsWordAt(s, i - 1) # IsWordAt(s, i)
AllIn(s, i, j, set) == \A k \in i..j : k <= Len(s) /\ Char(s, k) \in set
\* the first position >= i whose character is not in set (Len(s)+1 if none)
RunEnd(s, i, set) ==
    CHOOSE j \in i..(Len(s) + 1) :
        /\ AllIn(s, i, j - 1, set)
        /\ (j = Len(s) + 1 \/ Char(s, j) \notin set)

Max(S) == CHOOSE x \in S : \A y \in S : y <= x
Min(S) == CHOOSE x \in S : \A y \in S : x <= y

EmailLocalChars == Letters \cup Digits \cup {".", "_", "%", "+", "-"}
EmailDomainChars == Letters \cup Digits \cup {".", "-"}
EmailTldChars == Letters \cup {"|"}
PhoneSeparators == {"-", "."}

\* /\b[A-Za-z0-9._%+-]+@[A-Za-z0-9.-]+\.[A-Z|a-z]{2,}\b/ tried at position i:
\* the position after the match, 0 when there is none.  The quantifiers are
\* greedy: the longest domain that leaves a match, then the longest tld.
EmailMatchEnd(s, i) ==
    LET localEnd == RunEnd(s, i, EmailLocalChars)
        domStart == localEnd + 1
        domRunEnd == RunEnd(s, domStart, EmailDomainChars)
        TldEnds(dot) ==
            {te \in (dot + 3)..RunEnd(s, dot + 1, EmailTldChars) : WordBoundary(s, te)}
        dots == {dot \in (domStart + 1)..(domRunEnd - 1) :
                    Char(s, dot) = "." /\ TldEnds(dot) # {}}
    IN  IF /\ i <= Len(s)
           /\ WordBoundary(s, i)
           /\ localEnd > i
           /\ localEnd <= Len(s)
           /\ Char(s, localEnd) = "@"
           /\ dots # {}
        THEN Max(TldEnds(Max(dots)))
        ELSE 0

\* /\b\d{3}[-.]?\d{3}[-.]?\d{4}\b/ tried at position i
PhoneMatchEnd(s, i) ==
    LET a == i + 3
        b == IF a <= Len(s) /\ Char(s, a) \in PhoneSeparators THEN a + 1 ELSE a
        c == b + 3
        d == IF c <= Len(s) /\ Char(s, c) \in PhoneSeparators THEN c + 1 ELSE c
        e == d + 4
    IN  IF /\ i <= Len(s)
           /\ WordBoundary(s, i)
           /\ AllIn(s, i, a - 1, Digits)
           /\ AllIn(s, b, c - 1, Digits)
           /\ AllIn(s, d, e - 1, Digits)
           /\ WordBoundary(s, e)
        THEN e
        ELSE 0

EMAIL_REDACTED == "[EMAIL REDACTED]"
PHONE_REDACTED == "[PHONE REDACTED]"

\* content.replace(/email/g, '[EMAIL REDACTED]')
RECURSIVE ReplaceEmailFrom(_, _)
ReplaceEmailFrom(s, i) ==
    IF i > Len(s) THEN ""
    ELSE IF EmailMatchEnd(s, i) > 0
         THEN EMAIL_REDACTED \o ReplaceEmailFrom(s, EmailMatchEnd(s, i))
         ELSE Char(s, i) \o ReplaceEmailFrom(s, i + 1)

\* content.replace(/phone/g, '[PHONE REDACTED]')
RECURSIVE ReplacePhoneFrom(_, _)
ReplacePhoneFrom(s, i) ==
    IF i > Len(s) THEN ""
    ELSE IF PhoneMatchEnd(s, i) > 0
         THEN PHONE_REDACTED \o ReplacePhoneFrom(s, PhoneMatchEnd(s, i))
         ELSE Char(s, i) \o ReplacePhoneFrom(s, i + 1)

HasFullVisibility(role) == role = "recruiter" \/ role = "admin"

\* the two replace calls of GET /api/resumes/:id
Redact(content) == ReplacePhoneFrom(ReplaceEmailFrom(content, 1), 1)

\* the substrings of s that the two patterns match, as replace(/../g) finds them
RECURSIVE EmailMatchesFrom(_, _)
EmailMatchesFrom(s, i) ==
    IF i > Len(s) THEN {}
    ELSE IF EmailMatchEnd(s, i) > 0
         THEN {SubSeq(s, i, EmailMatchEnd(s, i) - 1)}
                  \cup EmailMatchesFrom(s, EmailMatchEnd(s, i))
         ELSE EmailMatchesFrom(s, i + 1)
RECURSIVE PhoneMatchesFrom(_, _)
PhoneMatchesFrom(s, i) ==
    IF i > Len(s) THEN {}
    ELSE IF PhoneMatchEnd(s, i) > 0
         THEN {SubSeq(s, i, PhoneMatchEnd(s, i) - 1)}
                  \cup PhoneMatchesFrom(s, PhoneMatchEnd(s, i))
         ELSE PhoneMatchesFrom(s, i + 1)
PiiIn(s) == EmailMatchesFrom(s, 1) \cup PhoneMatchesFrom(s, 1)

----------------------------------------------------------------------------
(* The store and its callers                                               *)

MaxResumes == 2     \* uploads in a behaviour
MaxTime == 1        \* clock ticks in a behaviour
MaxLimit == 2       \* largest limit / offset a caller sends

\* database/init.js seedInitialData, and one more registered user
SeedUsers ==
    { [id |-> 1, email |-> "admin@resumerag.com", password |-> "admin123",
       name |-> "Admin User", role |-> "admin"],
      [id |-> 2, email |-> "recruiter@company.com", password |-> "recruiter123",
       name |-> "Test Recruiter", role |-> "recruiter"],
      [id |-> 3, email |-> "user@example.com", password |-> "user123",
       name |-> "Test User", role |-> "user"],
      [id |-> 4, email |-> "john@example.com", password |-> "john123",
       name |-> "John Doe", role |-> "user"] }

\* req.user as authenticateToken sets it from the token: userId and role
Callers == {[userId |-> u.id, role |-> u.role] : u \in SeedUsers}
Uploaders == {c \in Callers : c.role = "user"}

\* texts of uploaded files, file names, and list filters
Contents == { "Python dev jane@example.com 555-123-4567",
              "Java engineer",
              "python and java",
              "Go, R, C" }
FileNames == {"cv.txt", "python.pdf"}
ListFilters == {"", "python", "cv"}
LimitInputs == (-1)..MaxLimit
OffsetInputs == 0..MaxLimit

NoResponse == [kind |-> "none"]

\* String.prototype.substring(0, n)
substring0(s, n) == SubSeq(s, 1, IF n < Len(s) THEN n ELSE Len(s))
PARSED_CONTENT_CHARS == 1000

\* the sample job of seedInitialData
SeedJob ==
    [ id |-> 1,
      title |-> "Senior Software Engineer",
      description |-> "We are looking for a Senior Software Engineer to join our team. You will be responsible for developing and maintaining our web applications using modern technologies.",
      requirements |-> "5+ years experience with JavaScript/Node.js, React, SQL databases, REST APIs, Git version control",
      created_by |-> 2 ]

InitStore ==
    /\ users = SeedUsers
    /\ resumes = {}
    /\ nextResumeId = 1
    /\ now = 0
    /\ resp = NoResponse
    /\ jobs = {SeedJob}
    /\ nextJobId = 2
    /\ search_queries = <<>>
    /\ job_matches = <<>>
    /\ applications = {}
    /\ idempotency_keys = {}
    /\ reqs = <<>>

\* the response reaches the client; the server takes the next request
Deliver ==
    /\ resp # NoResponse
    /\ resp' = NoResponse
    /\ UNCHANGED <<users, resumes, nextResumeId, now>>

\* time passes between two requests
Tick ==
    /\ resp = NoResponse
    /\ now < MaxTime
    /\ now' = now + 1
    /\ UNCHANGED <<users, resumes, nextResumeId, resp>>

\* POST /api/resumes: parse the file, store the row, answer 201
UploadResume(caller, originalname, content) ==
    /\ resp = NoResponse
    /\ nextResumeId <= MaxResumes
    /\ resumes' = resumes \cup
          {[ id |-> nextResumeId,
             user_id |-> caller.userId,
             original_name |-> originalname,
             content |-> content,
             parsed_data |-> [filename |-> originalname,
                              content |-> substring0(content, PARSED_CONTENT_CHARS)],
             created_at |-> now ]}
    /\ nextResumeId' = nextResumeId + 1
    /\ resp' = [kind |-> "upload", status |-> 201, caller |-> caller,
                id |-> nextResumeId, filename |-> originalname, uploadedAt |-> now]
    /\ UNCHANGED <<users, now>>

\* SQLite's LIKE '%q%': q occurs in the text, ASCII letters compared without case
Like(text, q) == includes(toLowerCase(text), toLowerCase(q))
\* Like, tabulated over the stored texts and the filters
LikeTable == [text \in Contents \cup FileNames |-> {q \in ListFilters : Like(text, q)}]

\* the WHERE clause GET /api/resumes builds, for the items and for the count:
\*   [WHERE content LIKE ? OR original_name LIKE ?] [AND | WHERE user_id = ?]
\* AND binds tighter than OR
ListWhere(r, caller, q) ==
    IF q # ""
    THEN IF caller.role = "user"
         THEN \/ q \in LikeTable[r.content]
              \/ (q \in LikeTable[r.original_name] /\ r.user_id = caller.userId)
         ELSE q \in LikeTable[r.content] \/ q \in LikeTable[r.original_name]
    ELSE IF caller.role = "user"
         THEN r.user_id = caller.userId
         ELSE TRUE

\* JOIN users u ON r.user_id = u.id
Uploader(r) == CHOOSE u \in users : u.id = r.user_id
HasUploader(r) == \E u \in users : u.id = r.user_id

\* the sequences that list the rows of S once each, created_at descending
\* (rows of equal created_at in any order)
RECURSIVE OrderedByCreatedDesc(_)
OrderedByCreatedDesc(S) ==
    IF S = {} THEN {<<>>}
    ELSE UNION { {<<r>> \o rest : rest \in OrderedByCreatedDesc(S \ {r})} :
                 r \in {x \in S : \A y \in S : y.created_at <= x.created_at} }

\* LIMIT limit OFFSET offset: a negative limit is no limit, a negative offset is 0
LimitOffset(rows, limit, offset) ==
    LET from == (IF offset < 0 THEN 0 ELSE offset) + 1
        upto == IF limit < 0 THEN Len(rows)
                ELSE IF from + limit - 1 < Len(rows) THEN from + limit - 1 ELSE Len(rows)
    IN  SubSeq(rows, from, upto)

ResumeItem(row) ==
    [id |-> row.id, filename |-> row.original_name, uploader |-> Uploader(row).name,
     uploadedAt |-> row.created_at, parsedData |-> row.parsed_data]

\* GET /api/resumes?limit&offset&q
ListResumes(caller, limit, offset, q) ==
    /\ resp = NoResponse
    /\ \E ordered \in OrderedByCreatedDesc(
                        {r \in resumes : HasUploader(r) /\ ListWhere(r, caller, q)}) :
          LET rows == LimitOffset(ordered, limit, offset)
              total == Cardinality({r \in resumes : ListWhere(r, caller, q)})
              nextOffset == IF offset + limit < total THEN offset + limit ELSE -1
          IN  resp' = [kind |-> "list", status |-> 200, caller |-> caller, q |-> q,
                       items |-> [i \in DOMAIN rows |-> ResumeItem(rows[i])],
                       next_offset |-> nextOffset, total |-> total]
    /\ UNCHANGED <<users, resumes, nextResumeId, now>>

\* the row GET and DELETE /api/resumes/:id read:
\*   WHERE r.id = ? [AND r.user_id = ?  when the caller's role is 'user']
VisibleRows(caller, id, joined) ==
    {r \in resumes : /\ r.id = id
                     /\ (joined => HasUploader(r))
                     /\ (caller.role = "user" => r.user_id = caller.userId)}

NotFound(kind, caller, id) ==
    [kind |-> kind, status |-> 404, caller |-> caller, id |-> id]

\* Redact, tabulated over the stored texts
RedactTable == [text \in Contents |-> Redact(text)]

\* the content field of the GET /api/resumes/:id response
RedactFor(role, content) ==
    IF ~HasFullVisibility(role) THEN RedactTable[content] ELSE content

\* GET /api/resumes/:id
GetResume(caller, id) ==
    /\ resp = NoResponse
    /\ IF VisibleRows(caller, id, TRUE) = {}
       THEN resp' = NotFound("get", caller, id)
       ELSE LET row == CHOOSE r \in VisibleRows(caller, id, TRUE) : TRUE
            IN  resp' = [kind |-> "get", status |-> 200, caller |-> caller,
                         id |-> row.id, filename |-> row.original_name,
                         content |-> RedactFor(caller.role, row.content),
                         uploader |-> Uploader(row).name,
                         parsedData |-> row.parsed_data]
    /\ UNCHANGED <<users, resumes, nextResumeId, now>>

\* DELETE /api/resumes/:id
DeleteResume(caller, id) ==
    /\ resp = NoResponse
    /\ IF VisibleRows(caller, id, FALSE) = {}
       THEN /\ resp' = NotFound("delete", caller, id)
            /\ UNCHANGED resumes
       ELSE /\ resumes' = {r \in resumes : r.id # id}
            /\ resp' = [kind |-> "delete", status |-> 200, caller |-> caller, id |-> id]
    /\ UNCHANGED <<users, nextResumeId, now>>

ResumeIds == 1..MaxResumes

Init ==
    /\ InitStore
    /\ simA = "" /\ simB = "" /\ simOut = <<>>

Next ==
    \/ Deliver /\ UNCHANGED <<simVars, rankVars, idemVars>>
    \/ Tick /\ UNCHANGED <<simVars, rankVars, idemVars>>
    \/ \E c \in Uploaders, n \in FileNames, t \in Contents :
          UploadResume(c, n, t) /\ UNCHANGED <<simVars, rankVars, idemVars>>
    \/ \E c \in Callers, l \in LimitInputs, o \in OffsetInputs, q \in ListFilters :
          ListResumes(c, l, o, q) /\ UNCHANGED <<simVars, rankVars, idemVars>>
    \/ \E c \in Callers, id \in ResumeIds :
          GetResume(c, id) /\ UNCHANGED <<simVars, rankVars, idemVars>>
    \/ \E c \in Callers, id \in ResumeIds :
          DeleteResume(c, id) /\ UNCHANGED <<simVars, rankVars, idemVars>>

Spec == Init /\ [][Next]_vars

----------------------------------------------------------------------------
(* Claims about the resume routes                                          *)

StoredRow(id) == CHOOSE r \in resumes : r.id = id
OwnMatching(caller, q) ==
    {r \in resumes : /\ r.user_id = caller.userId
                     /\ (q = "" \/ q \in LikeTable[r.content]
                                \/ q \in LikeTable[r.original_name])}

\* C1: a caller of role 'user' who lists resumes, with any limit, offset and
\* filter q, gets only resumes they own, and total counts only their own
\* resumes (those that pass the filter).
C1_UserListsOnlyOwnResumes ==
    (resp.kind = "list" /\ resp.caller.role = "user") =>
        /\ \A i \in DOMAIN resp.items :
              StoredRow(resp.items[i].id).user_id = resp.caller.userId
        /\ resp.total = Cardinality(OwnMatching(resp.caller, resp.q))

\* the matches of the two patterns in each stored text
PiiTable == [text \in Contents |-> PiiIn(text)]

\* C2: GET /api/resumes/:id answers a caller who is neither recruiter nor
\* admin with no field (content, parsedData.content) that contains an email
\* or phone match of the stored content, and answers a recruiter or admin
\* with the stored content unchanged.
C2_ResumeTextRedactedByRole ==
    (resp.kind = "get" /\ resp.status = 200) =>
        LET stored == StoredRow(resp.id).content
        IN  IF HasFullVisibility(resp.caller.role)
            THEN resp.content = stored
            ELSE \A pii \in PiiTable[stored] :
                    /\ ~includes(resp.content, pii)
                    /\ ~includes(resp.parsedData.content, pii)

\* C6: a resume row leaves the table only through a DELETE answered 200 to
\* the row's owner or to an admin.
C6_OnlyOwnerOrAdminDeletes ==
    [][\A r \in resumes :
          r \notin resumes' =>
              /\ resp'.kind = "delete" /\ resp'.status = 200
              /\ (resp'.caller.role = "admin" \/ resp'.caller.userId = r.user_id)]_vars

----------------------------------------------------------------------------
(* calculateSimilarity on its own: every pair of texts of at most MaxWords *)
(* words, the words joined by single spaces                                 *)

MaxWords == 2
SimVocab == {"the", "Python", "go", "java", "node.js"}

RECURSIVE TextsUpTo(_)
TextsUpTo(n) ==
    IF n = 0 THEN {""}
    ELSE LET shorter == TextsUpTo(n - 1)
         IN  shorter \cup {IF t = "" THEN w ELSE t \o " " \o w :
                              t \in shorter, w \in SimVocab}
SimTexts == TextsUpTo(MaxWords)

InitSim ==
    /\ InitStore
    /\ simA \in SimTexts
    /\ simB \in SimTexts
    /\ simOut = <<>>

SimCall ==
    /\ simOut = <<>>
    /\ simOut' = <<calculateSimilarity(simA, simB), calculateSimilarity(simB, simA),
                   calculateSimilarity(simA, simA)>>
    /\ UNCHANGED <<simA, simB>>
    /\ UNCHANGED <<storeVars, rankVars, idemVars>>

NextSim == SimCall

SpecSim == InitSim /\ [][NextSim]_vars

NoTokens(text) == filteredTokens(text) = <<>>

\* C8: calculateSimilarity(A, A) is 1 for every text A that keeps at least
\* one token after filtering, and calculateSimilarity of two texts that both
\* keep no token is 0, not NaN.
C8_SelfSimilarityOneEmptyZero ==
    simOut # <<>> =>
        /\ (~NoTokens(simA) => simOut[3] = One)
        /\ (NoTokens(simA) /\ NoTokens(simB) => simOut[1] = Zero)

\* C9: calculateSimilarity gives the same value for (A, B) and for (B, A),
\* for every pair of texts (for two texts without tokens both values are the
\* same not-a-number result).
C9_SimilaritySymmetric ==
    simOut # <<>> => simOut[1] = simOut[2]

\* two different texts that share some but not all tokens have been scored
C9_Witness ==
    /\ simOut # <<>>
    /\ simA # simB
    /\ Gt(simOut[1], Zero)
    /\ Gt(One, simOut[1])

----------------------------------------------------------------------------
(* routes/search.js: extractSnippets and POST /api/ask                     *)

MaxSearches == 1    \* search_queries rows in a behaviour
MaxJobs == 1        \* job postings created in a behaviour
MaxMatchRows == 1   \* POST /:id/match is served while job_matches holds fewer rows
MaxCount == 2       \* largest k / top_n a caller sends

SentenceChars == Alphabet \ {".", "!", "?"}
NonSpace == Alphabet \ {" "}

\* String.prototype.trim
trim(s) ==
    LET solid == {i \in 1..Len(s) : Char(s, i) # " "}
    IN  IF solid = {} THEN "" ELSE SubSeq(s, Min(solid), Max(solid))

\* LongSentence keeping every sentence that is not blank
LongSentence_NotBlank(s) == Len(trim(s)) > 0
LongSentence(s) == Len(trim(s)) > 10
LongerThan2(w) == Len(w) > 2
LongerThan3(w) == Len(w) > 3
\* a.includes(b) || b.includes(a)
Overlaps(a, b) == includes(a, b) \/ includes(b, a)

\* ComesBefore with the comparator reversed: ascending
ComesBefore_Ascending(scores, i, j) ==
    \/ Gt(scores[j], scores[i])
    \/ (~Gt(scores[i], scores[j]) /\ i < j)

\* the order Array.prototype.sort((a, b) => b.score - a.score) leaves the
\* positions of scores in: descending, equal scores (and scores the
\* comparator cannot tell apart) in their original order
ComesBefore(scores, i, j) ==
    \/ Gt(scores[i], scores[j])
    \/ (~Gt(scores[j], scores[i]) /\ i < j)
SortDescOrder(scores) ==
    [p \in DOMAIN scores |->
        CHOOSE i \in DOMAIN scores :
            Cardinality({j \in DOMAIN scores : j # i /\ ComesBefore(scores, j, i)}) = p - 1]

\* Array.prototype.slice(0, n)
slice0(seq, n) ==
    LET end == IF n < 0 THEN (IF Len(seq) + n < 0 THEN 0 ELSE Len(seq) + n)
               ELSE IF n > Len(seq) THEN Len(seq) ELSE n
    IN  SubSeq(seq, 1, end)

SnippetScore(sentence, queryWords) ==
    LET sentenceWords == split(toLowerCase(sentence), NonSpace)
        matches == {w \in DOMAIN queryWords :
                       \E sw \in DOMAIN sentenceWords :
                           Overlaps(sentenceWords[sw], queryWords[w])}
    IN  Quot(Cardinality(matches), Len(queryWords))

extractSnippets(text, query, k) ==
    LET sentences == SelectSeq(split(text, SentenceChars), LongSentence)
        queryWords == SelectSeq(split(toLowerCase(query), NonSpace), LongerThan2)
        scores == [i \in DOMAIN sentences |-> SnippetScore(sentences[i], queryWords)]
        order == SortDescOrder(scores)
        sorted == [p \in DOMAIN sentences |-> trim(sentences[order[p]])]
    IN  SelectSeq(slice0(sorted, k), NonEmpty)

SEARCH_MAX_RESULTS == 10
SNIPPETS_PER_RESULT == 2
RELEVANCE_FLOOR == Quot(1, 100)
RELEVANCE_HIGH == Quot(1, 10)
RELEVANCE_MEDIUM == Quot(5, 100)

Queries == { "", "the", "python java", "python sql aws",
             "python react node sql git rest api aws docker linux css html vue" }
CountInputs == (-1)..MaxCount

\* similarity and snippets of each stored text for each query, tabulated
SearchTable ==
    [text \in Contents |->
        [query \in Queries |->
            [similarity |-> calculateSimilarity(text, query),
             snippets |-> extractSnippets(text, query, SNIPPETS_PER_RESULT)]]]

\* SearchResult with the 'high' tier starting at 0.1 instead of above it
SearchResult_HighAtTenth(resume, query) ==
    LET similarity == SearchTable[resume.content][query].similarity
    IN  [ resume_id |-> resume.id,
          filename |-> resume.original_name,
          uploader |-> Uploader(resume).name,
          similarity_score |-> similarity,
          snippets |-> SearchTable[resume.content][query].snippets,
          relevance |-> IF Ge(similarity, RELEVANCE_HIGH) THEN "high"
                        ELSE IF Gt(similarity, RELEVANCE_MEDIUM) THEN "medium"
                        ELSE "low" ]

SearchResult(resume, query) ==
    LET similarity == SearchTable[resume.content][query].similarity
    IN  [ resume_id |-> resume.id,
          filename |-> resume.original_name,
          uploader |-> Uploader(resume).name,
          similarity_score |-> similarity,
          snippets |-> SearchTable[resume.content][query].snippets,
          relevance |-> IF Gt(similarity, RELEVANCE_HIGH) THEN "high"
                        ELSE IF Gt(similarity, RELEVANCE_MEDIUM) THEN "medium"
                        ELSE "low" ]

\* AboveFloor written as "not at or below the floor": it lets NaN through
AboveFloor_KeepsNaN(result) == ~Ge(RELEVANCE_FLOOR, result.similarity_score)

\* .filter(result => result.similarity_score > 0.01)
AboveFloor(result) == Gt(result.similarity_score, RELEVANCE_FLOOR)

\* the rows of S in every order: a SELECT without ORDER BY
RECURSIVE AnyOrder(_)
AnyOrder(S) ==
    IF S = {} THEN {<<>>}
    ELSE UNION { {<<r>> \o rest : rest \in AnyOrder(S \ {r})} : r \in S }

\* the resumes POST /api/ask scores: all of them, or the caller's own when
\* the caller's role is 'user'
SearchScope(caller) ==
    {r \in resumes : HasUploader(r) /\ (caller.role = "user" => r.user_id = caller.userId)}

\* .filter(..).sort((a, b) => b.similarity_score - a.similarity_score).slice(0, kNum)
RankSearch(all, kNum) ==
    LET kept == SelectSeq(all, AboveFloor)
        order == SortDescOrder([i \in DOMAIN kept |-> kept[i].similarity_score])
        sorted == [p \in DOMAIN kept |-> kept[order[p]]]
    IN  slice0(sorted, kNum)

ErrorResponse(kind, status, code, caller) ==
    [kind |-> kind, status |-> status, code |-> code, caller |-> caller]

\* POST /api/ask answering 500 when the INSERT into search_queries fails
Ask_AuditFatal(caller, query, k, readFails, auditFails) ==
    /\ resp = NoResponse
    /\ IF query = ""
       THEN /\ resp' = ErrorResponse("ask", 400, "FIELD_REQUIRED", caller)
            /\ UNCHANGED search_queries
       ELSE IF readFails \/ auditFails
       THEN /\ resp' = ErrorResponse("ask", 500, "INTERNAL_ERROR", caller)
            /\ UNCHANGED search_queries
       ELSE \E retrieved \in AnyOrder(SearchScope(caller)) :
               LET kNum == IF k < SEARCH_MAX_RESULTS THEN k ELSE SEARCH_MAX_RESULTS
                   all == [i \in DOMAIN retrieved |-> SearchResult(retrieved[i], query)]
                   results == RankSearch(all, kNum)
               IN  /\ search_queries' =
                         Append(search_queries,
                                [query |-> query, results |-> results, created_at |-> now])
                   /\ resp' = [kind |-> "ask", status |-> 200, caller |-> caller,
                               k |-> k, query |-> query, results |-> results,
                               total_found |-> Len(results),
                               search_timestamp |-> now]
    /\ UNCHANGED <<users, resumes, nextResumeId, now, jobs, nextJobId, job_matches>>

\* POST /api/ask; readFails: the SELECT fails; auditFails: the INSERT into
\* search_queries fails
Ask(caller, query, k, readFails, auditFails) ==
    /\ resp = NoResponse
    /\ IF query = ""
       THEN /\ resp' = ErrorResponse("ask", 400, "FIELD_REQUIRED", caller)
            /\ UNCHANGED search_queries
       ELSE IF readFails
       THEN /\ resp' = ErrorResponse("ask", 500, "INTERNAL_ERROR", caller)
            /\ UNCHANGED search_queries
       ELSE \E retrieved \in AnyOrder(SearchScope(caller)) :
               LET kNum == IF k < SEARCH_MAX_RESULTS THEN k ELSE SEARCH_MAX_RESULTS
                   all == [i \in DOMAIN retrieved |-> SearchResult(retrieved[i], query)]
                   results == RankSearch(all, kNum)
               IN  /\ search_queries' =
                         IF auditFails THEN search_queries
                         ELSE Append(search_queries,
                                     [query |-> query, results |-> results,
                                      created_at |-> now])
                   /\ resp' = [kind |-> "ask", status |-> 200, caller |-> caller,
                               k |-> k, query |-> query, results |-> results,
                               total_found |-> Len(results),
                               search_timestamp |-> now]
    /\ UNCHANGED <<users, resumes, nextResumeId, now, jobs, nextJobId, job_matches>>

----------------------------------------------------------------------------
(* routes/jobs.js: POST /api/jobs and POST /api/jobs/:id/match             *)

MATCH_MAX_RESULTS == 20
EVIDENCE_MAX == 5
RECOMMEND_STRONG == Quot(3, 10)
RECOMMEND_MODERATE == Quot(1, 10)

JobPostings ==
    { [title |-> "Java Python", description |-> "java engineer wanted", requirements |-> ""],
      [title |-> "QA", description |-> "Go R", requirements |-> "C"],
      [title |-> SeedJob.title, description |-> SeedJob.description,
       requirements |-> SeedJob.requirements \o ", Docker, Linux"],
      [title |-> "", description |-> "java engineer wanted", requirements |-> ""] }

CanPostJobs(role) == role \in {"recruiter", "admin"}

\* POST /api/jobs; insertFails: the INSERT fails
CreateJob(caller, posting, insertFails) ==
    /\ resp = NoResponse
    /\ IF posting.title = "" \/ posting.description = ""
       THEN /\ resp' = ErrorResponse("createJob", 400, "FIELD_REQUIRED", caller)
            /\ UNCHANGED <<jobs, nextJobId>>
       ELSE IF ~CanPostJobs(caller.role)
       THEN /\ resp' = ErrorResponse("createJob", 403, "FORBIDDEN", caller)
            /\ UNCHANGED <<jobs, nextJobId>>
       ELSE IF insertFails
       THEN /\ resp' = ErrorResponse("createJob", 500, "INTERNAL_ERROR", caller)
            /\ UNCHANGED <<jobs, nextJobId>>
       ELSE /\ jobs' = jobs \cup {[ id |-> nextJobId,
                                    title |-> posting.title,
                                    description |-> posting.description,
                                    requirements |-> posting.requirements,
                                    created_by |-> caller.userId ]}
            /\ nextJobId' = nextJobId + 1
            /\ resp' = [kind |-> "createJob", status |-> 201, caller |-> caller,
                        id |-> nextJobId, title |-> posting.title,
                        description |-> posting.description,
                        requirements |-> posting.requirements,
                        created_by |-> caller.userId, created_at |-> now]
    /\ UNCHANGED <<users, resumes, nextResumeId, now, search_queries, job_matches>>

\* `${job.title} ${job.description} ${job.requirements}`.toLowerCase()
JobText(job) ==
    toLowerCase(job.title \o " " \o job.description \o " " \o job.requirements)

\* Math.round(x * 100) / 100
Round2(x) ==
    IF x.den = 0 THEN x ELSE Quot((200 * x.num + x.den) \div (2 * x.den), 100)

\* MatchKeywords with missing_requirements cut from all the job keywords
MatchKeywords_MissingFromAll(jobText, content) ==
    LET resumeText == toLowerCase(content)
        jobKeywords == SelectSeq(split(jobText, NonSpace), LongerThan3)
        resumeKeywords == SelectSeq(split(resumeText, NonSpace), LongerThan3)
        Matched(keyword) ==
            \E i \in DOMAIN resumeKeywords : Overlaps(resumeKeywords[i], keyword)
        matchingKeywords == SelectSeq(jobKeywords, Matched)
        matchScore == Quot(Len(matchingKeywords), Len(jobKeywords))
    IN  [ match_score |-> Round2(matchScore),
          evidence |-> slice0(matchingKeywords, EVIDENCE_MAX),
          missing_requirements |-> slice0(jobKeywords, EVIDENCE_MAX),
          recommendation |-> IF Gt(matchScore, RECOMMEND_STRONG) THEN "strong"
                             ELSE IF Gt(matchScore, RECOMMEND_MODERATE) THEN "moderate"
                             ELSE "weak" ]

\* the keyword overlap of one job text and one resume text
MatchKeywords(jobText, content) ==
    LET resumeText == toLowerCase(content)
        jobKeywords == SelectSeq(split(jobText, NonSpace), LongerThan3)
        resumeKeywords == SelectSeq(split(resumeText, NonSpace), LongerThan3)
        Matched(keyword) ==
            \E i \in DOMAIN resumeKeywords : Overlaps(resumeKeywords[i], keyword)
        Missing(keyword) == ~Matched(keyword)
        matchingKeywords == SelectSeq(jobKeywords, Matched)
        matchScore == Quot(Len(matchingKeywords), Len(jobKeywords))
    IN  [ match_score |-> Round2(matchScore),
          evidence |-> slice0(matchingKeywords, EVIDENCE_MAX),
          missing_requirements |-> slice0(SelectSeq(jobKeywords, Missing), EVIDENCE_MAX),
          recommendation |-> IF Gt(matchScore, RECOMMEND_STRONG) THEN "strong"
                             ELSE IF Gt(matchScore, RECOMMEND_MODERATE) THEN "moderate"
                             ELSE "weak" ]

\* the columns of a jobs row that the match reads
PostingOf(job) ==
    [title |-> job.title, description |-> job.description, requirements |-> job.requirements]
\* MatchKeywords, tabulated over the postings and the stored texts
MatchTable ==
    [posting \in {PostingOf(j) : j \in JobPostings \cup {SeedJob}} |->
        [content \in Contents |-> MatchKeywords(JobText(posting), content)]]

MatchResult(job, resume) ==
    LET m == MatchTable[PostingOf(job)][resume.content]
    IN  [ resume_id |-> resume.id,
          filename |-> resume.original_name,
          uploader |-> Uploader(resume).name,
          match_score |-> m.match_score,
          evidence |-> m.evidence,
          missing_requirements |-> m.missing_requirements,
          recommendation |-> m.recommendation ]

\* .filter(match => match.match_score > 0)
PositiveMatch(match) == Gt(match.match_score, Zero)

\* .filter(..).sort((a, b) => b.match_score - a.match_score).slice(0, topN)
RankMatches(all, topN) ==
    LET kept == SelectSeq(all, PositiveMatch)
        order == SortDescOrder([i \in DOMAIN kept |-> kept[i].match_score])
        sorted == [p \in DOMAIN kept |-> kept[order[p]]]
    IN  slice0(sorted, topN)

MatchScope == {r \in resumes : HasUploader(r)}

\* POST /api/jobs/:id/match; jobReadFails, resumesReadFails: a SELECT fails.
\* Each INSERT into job_matches may fail on its own: failing holds the
\* positions of the matches that are not stored.
Match(caller, id, top_n, jobReadFails, resumesReadFails) ==
    /\ resp = NoResponse
    /\ IF ~CanPostJobs(caller.role)
       THEN /\ resp' = ErrorResponse("match", 403, "FORBIDDEN", caller)
            /\ UNCHANGED job_matches
       ELSE IF jobReadFails
       THEN /\ resp' = ErrorResponse("match", 500, "INTERNAL_ERROR", caller)
            /\ UNCHANGED job_matches
       ELSE IF ~\E j \in jobs : j.id = id
       THEN /\ resp' = ErrorResponse("match", 404, "NOT_FOUND", caller)
            /\ UNCHANGED job_matches
       ELSE IF resumesReadFails
       THEN /\ resp' = ErrorResponse("match", 500, "INTERNAL_ERROR", caller)
            /\ UNCHANGED job_matches
       ELSE \E retrieved \in AnyOrder(MatchScope) :
               LET job == CHOOSE j \in jobs : j.id = id
                   topN == IF top_n < MATCH_MAX_RESULTS THEN top_n ELSE MATCH_MAX_RESULTS
                   all == [i \in DOMAIN retrieved |-> MatchResult(job, retrieved[i])]
                   matches == RankMatches(all, topN)
                   Row(i) == [ job_id |-> id,
                               resume_id |-> matches[i].resume_id,
                               match_score |-> matches[i].match_score,
                               evidence |-> matches[i].evidence,
                               missing_requirements |-> matches[i].missing_requirements,
                               created_at |-> now ]
               IN  \E failing \in SUBSET (DOMAIN matches) :
                      LET Stored(i) == i \notin failing
                          stored == SelectSeq([i \in DOMAIN matches |-> i], Stored)
                      IN  /\ job_matches' =
                                job_matches \o [p \in DOMAIN stored |-> Row(stored[p])]
                          /\ resp' = [kind |-> "match", status |-> 200, caller |-> caller,
                                      top_n |-> top_n,
                                      job_id |-> id, job_title |-> job.title,
                                      matches |-> matches,
                                      total_matches |-> Len(matches),
                                      matched_at |-> now]
    /\ UNCHANGED <<users, resumes, nextResumeId, now, jobs, nextJobId, search_queries>>

JobIds == 1..(MaxJobs + 1)

----------------------------------------------------------------------------
(* routes/search.js: GET /api/ask/history; routes/jobs.js:                 *)
(* GET /api/jobs/:id/matches.  A row's id is its position in the table.    *)

\* the orders ORDER BY created_at DESC may return the search_queries rows at
\* the positions in I
RECURSIVE HistoryOrders(_)
HistoryOrders(I) ==
    IF I = {} THEN {<<>>}
    ELSE UNION { {<<i>> \o rest : rest \in HistoryOrders(I \ {i})} :
                 i \in {x \in I : \A y \in I :
                           search_queries[y].created_at <= search_queries[x].created_at} }

\* GET /api/ask/history?limit&offset; readFails: the SELECT fails
History(caller, limit, offset, readFails) ==
    /\ resp = NoResponse
    /\ IF readFails
       THEN resp' = ErrorResponse("history", 500, "INTERNAL_ERROR", caller)
       ELSE \E ordered \in HistoryOrders(DOMAIN search_queries) :
               LET rows == LimitOffset(ordered, limit, offset)
               IN  resp' = [kind |-> "history", status |-> 200, caller |-> caller,
                            limit |-> limit, offset |-> offset,
                            items |-> [p \in DOMAIN rows |->
                                          [query |-> search_queries[rows[p]].query,
                                           results |-> search_queries[rows[p]].results,
                                           searchedAt |-> search_queries[rows[p]].created_at]],
                            next_offset |-> offset + limit,
                            total |-> Len(rows)]
    /\ UNCHANGED <<users, resumes, nextResumeId, now, rankVars>>

\* the job_matches rows of job id that join a resume and its uploader
JoinedMatches(id) ==
    {i \in DOMAIN job_matches :
        /\ job_matches[i].job_id = id
        /\ \E r \in resumes : r.id = job_matches[i].resume_id /\ HasUploader(r)}

\* the orders ORDER BY match_score DESC may return the job_matches rows at
\* the positions in I
RECURSIVE MatchOrders(_)
MatchOrders(I) ==
    IF I = {} THEN {<<>>}
    ELSE UNION { {<<i>> \o rest : rest \in MatchOrders(I \ {i})} :
                 i \in {x \in I : \A y \in I :
                           Ge(job_matches[x].match_score, job_matches[y].match_score)} }

MatchItem(i) ==
    LET row == job_matches[i]
        resume == CHOOSE r \in resumes : r.id = row.resume_id
    IN  [id |-> i, resume_id |-> row.resume_id, filename |-> resume.original_name,
         uploader |-> Uploader(resume).name, match_score |-> row.match_score,
         evidence |-> row.evidence, missing_requirements |-> row.missing_requirements,
         matched_at |-> row.created_at]

\* GET /api/jobs/:id/matches?limit&offset; readFails: the SELECT fails
ListMatches(caller, id, limit, offset, readFails) ==
    /\ resp = NoResponse
    /\ IF ~CanPostJobs(caller.role)
       THEN resp' = ErrorResponse("matches", 403, "FORBIDDEN", caller)
       ELSE IF readFails
       THEN resp' = ErrorResponse("matches", 500, "INTERNAL_ERROR", caller)
       ELSE \E ordered \in MatchOrders(JoinedMatches(id)) :
               LET rows == LimitOffset(ordered, limit, offset)
               IN  resp' = [kind |-> "matches", status |-> 200, caller |-> caller,
                            job_id |-> id, limit |-> limit, offset |-> offset,
                            items |-> [p \in DOMAIN rows |-> MatchItem(rows[p])],
                            next_offset |-> offset + limit,
                            total |-> Len(rows)]
    /\ UNCHANGED <<users, resumes, nextResumeId, now, rankVars>>

----------------------------------------------------------------------------
(* routes/jobs.js: PATCH /api/jobs/:id                                     *)

allowedFields == <<"title", "description", "requirements", "company", "location",
                   "salary_range">>
\* request bodies: the set of <<field, value>> pairs the body defines
JobUpdates ==
    { {},
      {<<"title", "Lead Engineer">>},
      {<<"description", "java engineer wanted">>, <<"requirements", "SQL">>},
      {<<"company", "Acme">>},
      {<<"id", "7">>} }

\* PATCH /api/jobs/:id; readFails: the SELECT fails; writeFails: the UPDATE
\* fails
UpdateJob(caller, id, updates, readFails, writeFails) ==
    LET Defined(field) == \E u \in updates : u[1] = field
        Value(field) == (CHOOSE u \in updates : u[1] = field)[2]
        Updated(p) == Defined(allowedFields[p])
        updateFields == SelectSeq([p \in DOMAIN allowedFields |-> p], Updated)
        Set(job, field) == IF Defined(field) THEN Value(field) ELSE job[field]
    IN  /\ resp = NoResponse
        /\ IF ~CanPostJobs(caller.role)
           THEN /\ resp' = ErrorResponse("updateJob", 403, "FORBIDDEN", caller)
                /\ UNCHANGED jobs
           ELSE IF readFails
           THEN /\ resp' = ErrorResponse("updateJob", 500, "INTERNAL_ERROR", caller)
                /\ UNCHANGED jobs
           ELSE IF ~\E j \in jobs : j.id = id
           THEN /\ resp' = ErrorResponse("updateJob", 404, "NOT_FOUND", caller)
                /\ UNCHANGED jobs
           ELSE LET job == CHOOSE j \in jobs : j.id = id
                IN  IF job.created_by # caller.userId /\ caller.role # "admin"
                    THEN /\ resp' = ErrorResponse("updateJob", 403, "FORBIDDEN", caller)
                         /\ UNCHANGED jobs
                    ELSE IF updateFields = <<>>
                    THEN /\ resp' = ErrorResponse("updateJob", 400, "NO_UPDATES", caller)
                         /\ UNCHANGED jobs
                    ELSE IF writeFails
                    THEN /\ resp' = ErrorResponse("updateJob", 500, "INTERNAL_ERROR", caller)
                         /\ UNCHANGED jobs
                    ELSE /\ jobs' = (jobs \ {job}) \cup
                                       {[job EXCEPT !.title = Set(job, "title"),
                                                    !.description = Set(job, "description"),
                                                    !.requirements = Set(job, "requirements")]}
                         /\ resp' = [kind |-> "updateJob", status |-> 200, caller |-> caller,
                                     id |-> id,
                                     updated_fields |->
                                        [p \in DOMAIN updateFields |->
                                            allowedFields[updateFields[p]]]]
        /\ UNCHANGED <<users, resumes, nextResumeId, now, nextJobId, search_queries,
                       job_matches>>

\* the routes that write resumes and jobs
NextDocs ==
    \/ Deliver /\ UNCHANGED <<simVars, rankVars, idemVars>>
    \/ \E c \in Uploaders, t \in {"Java engineer", "python and java"} :
          UploadResume(c, "cv.txt", t) /\ UNCHANGED <<simVars, rankVars, idemVars>>
    \/ \E c \in Callers, id \in ResumeIds :
          DeleteResume(c, id) /\ UNCHANGED <<simVars, rankVars, idemVars>>
    \/ /\ nextJobId <= MaxJobs + 1
       /\ \E c \in Callers, p \in JobPostings, f \in BOOLEAN : CreateJob(c, p, f)
       /\ UNCHANGED <<simVars, idemVars>>
    \/ /\ \E c \in Callers, id \in JobIds, u \in JobUpdates, rf \in BOOLEAN, wf \in BOOLEAN :
             UpdateJob(c, id, u, rf, wf)
       /\ UNCHANGED <<simVars, idemVars>>

SpecDocs == Init /\ [][NextDocs]_vars

MaxHistory == 2     \* search_queries rows and job_matches rows to list

NextLists ==
    \/ Deliver /\ UNCHANGED <<simVars, rankVars, idemVars>>
    \/ \E c \in Uploaders :
          UploadResume(c, "cv.txt", "Java engineer")
             /\ UNCHANGED <<simVars, rankVars, idemVars>>
    \/ /\ Len(search_queries) < MaxHistory
       /\ \E c \in {x \in Callers : x.role = "admin"} : Ask(c, "python java", 2, FALSE, FALSE)
       /\ UNCHANGED <<simVars, idemVars>>
    \/ /\ Len(job_matches) < MaxHistory
       /\ \E c \in {x \in Callers : x.role = "recruiter"} : Match(c, 1, 2, FALSE, FALSE)
       /\ UNCHANGED <<simVars, idemVars>>
    \/ \E c \in Callers, l \in LimitInputs, o \in OffsetInputs, f \in BOOLEAN :
          History(c, l, o, f) /\ UNCHANGED <<simVars, idemVars>>
    \/ \E c \in Callers, id \in JobIds, l \in LimitInputs, o \in OffsetInputs, f \in BOOLEAN :
          ListMatches(c, id, l, o, f) /\ UNCHANGED <<simVars, idemVars>>

SpecLists == Init /\ [][NextLists]_vars

NextRank ==
    \/ Deliver /\ UNCHANGED <<simVars, rankVars, idemVars>>
    \/ \E c \in Uploaders, t \in Contents :
          UploadResume(c, "cv.txt", t) /\ UNCHANGED <<simVars, rankVars, idemVars>>
    \/ /\ nextJobId <= MaxJobs + 1
       /\ \E c \in Callers, p \in JobPostings, f \in BOOLEAN : CreateJob(c, p, f)
       /\ UNCHANGED <<simVars, idemVars>>
    \/ /\ Len(search_queries) < MaxSearches
       /\ \E c \in Callers, q \in Queries, k \in CountInputs, rf \in BOOLEAN, af \in BOOLEAN :
             Ask(c, q, k, rf, af)
       /\ UNCHANGED <<simVars, idemVars>>
    \/ /\ Len(job_matches) < MaxMatchRows
       /\ \E c \in Callers, id \in JobIds, n \in CountInputs, jf \in BOOLEAN, rf \in BOOLEAN :
             Match(c, id, n, jf, rf)
       /\ UNCHANGED <<simVars, idemVars>>

SpecRank == Init /\ [][NextRank]_vars

----------------------------------------------------------------------------
(* routes/auth.js, routes/applications.js, routes/admin.js: the other POST *)
(* handlers                                                                *)

Roles == {"user", "recruiter", "admin"}
TOKEN_HOURS == 24
\* a request that carries no token: register and login
Anonymous == [userId |-> 0, role |-> "none"]

\* this.lastID of an INSERT into a table no row of which was deleted
NextId(rows) == Max({row.id : row \in rows} \cup {0}) + 1

\* jwt.sign({userId, email, role}, JWT_SECRET, {expiresIn: '24h'})
Token(id, email, role) ==
    [userId |-> id, email |-> email, role |-> role, expires |-> now + TOKEN_HOURS]

\* POST /api/auth/register; fails: a database call of the handler fails
Register(body, fails) ==
    /\ resp = NoResponse
    /\ IF body.email = "" \/ body.password = "" \/ body.name = ""
       THEN /\ resp' = ErrorResponse("register", 400, "FIELD_REQUIRED", Anonymous)
            /\ UNCHANGED users
       ELSE IF body.role \notin Roles
       THEN /\ resp' = ErrorResponse("register", 400, "INVALID_ROLE", Anonymous)
            /\ UNCHANGED users
       ELSE IF fails
       THEN /\ resp' = ErrorResponse("register", 500, "INTERNAL_ERROR", Anonymous)
            /\ UNCHANGED users
       ELSE IF \E u \in users : u.email = body.email
       THEN /\ resp' = ErrorResponse("register", 409, "USER_EXISTS", Anonymous)
            /\ UNCHANGED users
       ELSE /\ users' = users \cup {[ id |-> NextId(users), email |-> body.email,
                                      password |-> body.password, name |-> body.name,
                                      role |-> body.role ]}
            /\ resp' = [kind |-> "register", status |-> 201, caller |-> Anonymous,
                        user |-> [id |-> NextId(users), email |-> body.email,
                                  name |-> body.name, role |-> body.role],
                        token |-> Token(NextId(users), body.email, body.role)]
    /\ UNCHANGED <<resumes, nextResumeId, now, jobs, nextJobId, search_queries,
                   job_matches, applications>>

\* POST /api/auth/login
Login(body, fails) ==
    /\ resp = NoResponse
    /\ IF body.email = "" \/ body.password = ""
       THEN resp' = ErrorResponse("login", 400, "FIELD_REQUIRED", Anonymous)
       ELSE IF fails
       THEN resp' = ErrorResponse("login", 500, "INTERNAL_ERROR", Anonymous)
       ELSE IF ~\E u \in users : u.email = body.email /\ u.password = body.password
       THEN resp' = ErrorResponse("login", 401, "INVALID_CREDENTIALS", Anonymous)
       ELSE LET user == CHOOSE u \in users : u.email = body.email
            IN  resp' = [kind |-> "login", status |-> 200, caller |-> Anonymous,
                         user |-> [id |-> user.id, email |-> user.email,
                                   name |-> user.name, role |-> user.role],
                         token |-> Token(user.id, user.email, user.role)]
    /\ UNCHANGED <<users, resumes, nextResumeId, now, jobs, nextJobId, search_queries,
                   job_matches, applications>>

\* POST /api/applications; a job_id or resume_id of 0 is a missing field
Apply(caller, body, fails) ==
    /\ resp = NoResponse
    /\ IF body.job_id = 0 \/ body.resume_id = 0
       THEN /\ resp' = ErrorResponse("apply", 400, "FIELD_REQUIRED", caller)
            /\ UNCHANGED applications
       ELSE IF fails
       THEN /\ resp' = ErrorResponse("apply", 500, "INTERNAL_ERROR", caller)
            /\ UNCHANGED applications
       ELSE IF ~\E r \in resumes : r.id = body.resume_id /\ r.user_id = caller.userId
       THEN /\ resp' = ErrorResponse("apply", 404, "NOT_FOUND", caller)
            /\ UNCHANGED applications
       ELSE IF ~\E j \in jobs : j.id = body.job_id
       THEN /\ resp' = ErrorResponse("apply", 404, "NOT_FOUND", caller)
            /\ UNCHANGED applications
       ELSE IF \E a \in applications : a.job_id = body.job_id /\ a.user_id = caller.userId
       THEN /\ resp' = ErrorResponse("apply", 409, "ALREADY_APPLIED", caller)
            /\ UNCHANGED applications
       ELSE /\ applications' = applications \cup
                  {[ id |-> NextId(applications), job_id |-> body.job_id,
                     user_id |-> caller.userId, resume_id |-> body.resume_id,
                     cover_letter |-> "", status |-> "pending", notes |-> "",
                     applied_at |-> now ]}
            /\ resp' = [kind |-> "apply", status |-> 201, caller |-> caller,
                        id |-> NextId(applications), job_id |-> body.job_id,
                        resume_id |-> body.resume_id, application_status |-> "pending",
                        applied_at |-> now]
    /\ UNCHANGED <<users, resumes, nextResumeId, now, jobs, nextJobId, search_queries,
                   job_matches>>

\* POST /api/admin/users behind requireAdmin
AdminCreateUser(caller, body, fails) ==
    /\ resp = NoResponse
    /\ IF caller.role # "admin"
       THEN /\ resp' = ErrorResponse("adminUsers", 403, "FORBIDDEN", caller)
            /\ UNCHANGED users
       ELSE IF body.name = "" \/ body.email = "" \/ body.password = ""
       THEN /\ resp' = ErrorResponse("adminUsers", 400, "FIELD_REQUIRED", caller)
            /\ UNCHANGED users
       ELSE IF body.role \notin Roles
       THEN /\ resp' = ErrorResponse("adminUsers", 400, "INVALID_ROLE", caller)
            /\ UNCHANGED users
       ELSE IF fails
       THEN /\ resp' = ErrorResponse("adminUsers", 500, "INTERNAL_ERROR", caller)
            /\ UNCHANGED users
       ELSE IF \E u \in users : u.email = body.email
       THEN /\ resp' = ErrorResponse("adminUsers", 409, "EMAIL_EXISTS", caller)
            /\ UNCHANGED users
       ELSE /\ users' = users \cup {[ id |-> NextId(users), email |-> body.email,
                                      password |-> body.password, name |-> body.name,
                                      role |-> body.role ]}
            /\ resp' = [kind |-> "adminUsers", status |-> 201, caller |-> caller,
                        id |-> NextId(users), name |-> body.name, email |-> body.email,
                        role |-> body.role, created_at |-> now]
    /\ UNCHANGED <<resumes, nextResumeId, now, jobs, nextJobId, search_queries,
                   job_matches, applications>>

----------------------------------------------------------------------------
(* middleware/idempotency.js: checkIdempotency in front of the handlers.   *)
(* A request is a record: its endpoint, caller and Idempotency-Key, where  *)
(* it stands (pc), whether checkIdempotency has replaced its res.json, and *)
(* the response it has sent.                                               *)
(*   pc: "lookup"   the SELECT of checkIdempotency is pending              *)
(*       "handler"  next() was called, the route handler is to run         *)
(*       "storing"  the response is sent, the INSERT of the key is pending *)
(*       "stored" / "dropped"  the INSERT succeeded / failed and was logged *)
(*       "replayed" the stored response was sent                           *)
(*       "done"     the response is sent and nothing is pending            *)

MaxReqs == 2        \* POST requests in a behaviour

Endpoints == {"register", "login", "resumes", "jobs", "match", "ask",
              "applications", "adminUsers"}
\* the routes that name checkIdempotency in their middleware chain
UsesIdempotency(ep) == ep # "adminUsers"

Keys == {"k1"}
NoKey == ""         \* the request has no Idempotency-Key header

\* the requests the clients send: one body for each endpoint
RegisterBody == [email |-> "new@example.com", password |-> "secret",
                 name |-> "New User", role |-> "user"]
LoginBody == [email |-> "user@example.com", password |-> "user123"]
UploadBody == [originalname |-> "cv.txt", content |-> "Java engineer"]
JobBody == [title |-> "Java Python", description |-> "java engineer wanted",
            requirements |-> ""]
MatchBody == [id |-> 1, top_n |-> 2]
AskBody == [query |-> "python java", k |-> 2]
ApplyBody == [job_id |-> 1, resume_id |-> 1]
AdminUserBody == [name |-> "New Hire", email |-> "hire@company.com",
                  password |-> "secret", role |-> "recruiter"]

CallerWithRole(role) == CHOOSE c \in Callers : c.role = role
\* who sends the request to each endpoint
EndpointCallers(ep) ==
    IF ep \in {"register", "login"} THEN {Anonymous}
    ELSE IF ep \in {"jobs", "match"} THEN {CallerWithRole("recruiter")}
    ELSE IF ep = "adminUsers" THEN {CallerWithRole("admin")}
    ELSE IF ep = "ask" THEN {CallerWithRole("recruiter")}
    ELSE {[userId |-> 3, role |-> "user"]}

Pending(r) == r \in DOMAIN reqs
SetReq(r, pc, overridden, response) ==
    reqs' = [reqs EXCEPT ![r] = [ep |-> @.ep, caller |-> @.caller, key |-> @.key,
                                 pc |-> pc, overridden |-> overridden,
                                 resp |-> response]]

\* a POST request arrives; checkIdempotency calls next() at once when the
\* request has no key
Arrive(ep, caller, key) ==
    /\ resp = NoResponse
    /\ Len(reqs) < MaxReqs
    /\ reqs' = Append(reqs,
          [ ep |-> ep, caller |-> caller, key |-> key,
            pc |-> IF UsesIdempotency(ep) /\ key # NoKey THEN "lookup" ELSE "handler",
            overridden |-> FALSE,
            resp |-> NoResponse ])
    /\ UNCHANGED <<users, resumes, nextResumeId, now, resp, jobs, nextJobId,
                   search_queries, job_matches, applications, idempotency_keys>>

\* JSON.stringify({ status: statusCode, data })
StoredResponse(response) == [status |-> response.status, data |-> response]
\* res.status(cachedResponse.status || 200).json(cachedResponse.data)
CachedResponse(cached) ==
    [cached.data EXCEPT !.status = IF cached.status = 0 THEN 200 ELSE cached.status]

\* the callback of checkIdempotency's SELECT; fails: the SELECT fails
IdemLookup(r, fails) ==
    /\ resp = NoResponse
    /\ Pending(r)
    /\ reqs[r].pc = "lookup"
    /\ IF fails
       THEN SetReq(r, "handler", FALSE, NoResponse)
       ELSE IF \E row \in idempotency_keys : row.key = reqs[r].key
       THEN LET row == CHOOSE row \in idempotency_keys : row.key = reqs[r].key
            IN  SetReq(r, "replayed", FALSE, CachedResponse(row.response))
       ELSE SetReq(r, "handler", TRUE, NoResponse)
    /\ UNCHANGED <<users, resumes, nextResumeId, now, resp, jobs, nextJobId,
                   search_queries, job_matches, applications, idempotency_keys>>

\* the INSERT that the replaced res.json issued runs; fails: it fails for a
\* reason other than the primary key
StoreIdem(r, fails) ==
    /\ resp = NoResponse
    /\ Pending(r)
    /\ reqs[r].pc = "storing"
    /\ IF fails \/ \E row \in idempotency_keys : row.key = reqs[r].key
       THEN /\ SetReq(r, "dropped", TRUE, reqs[r].resp)
            /\ UNCHANGED idempotency_keys
       ELSE /\ SetReq(r, "stored", TRUE, reqs[r].resp)
            /\ idempotency_keys' = idempotency_keys \cup
                  {[key |-> reqs[r].key, response |-> StoredResponse(reqs[r].resp)]}
    /\ UNCHANGED <<users, resumes, nextResumeId, now, resp, jobs, nextJobId,
                   search_queries, job_matches, applications>>

\* the handler of request r is to run
AtHandler(r, ep) == Pending(r) /\ reqs[r].pc = "handler" /\ reqs[r].ep = ep
\* Responded with a handler that ends without calling res.json
Responded_NothingSent(r) ==
    /\ SetReq(r, "done", reqs[r].overridden, NoResponse)
    /\ UNCHANGED <<simVars, idempotency_keys>>
\* the handler of request r has called res.json: the response in resp' goes
\* to the client and, through the replaced res.json, to the INSERT
Responded(r) ==
    /\ SetReq(r, IF reqs[r].overridden THEN "storing" ELSE "done",
              reqs[r].overridden, resp')
    /\ UNCHANGED <<simVars, idempotency_keys>>

HandleRegister(r) ==
    /\ AtHandler(r, "register")
    /\ \E f \in BOOLEAN : Register(RegisterBody, f)
    /\ Responded(r)
HandleLogin(r) ==
    /\ AtHandler(r, "login")
    /\ \E f \in BOOLEAN : Login(LoginBody, f)
    /\ Responded(r)
HandleUpload(r) ==
    /\ AtHandler(r, "resumes")
    /\ UploadResume(reqs[r].caller, UploadBody.originalname, UploadBody.content)
    /\ UNCHANGED <<rankVars, applications>>
    /\ Responded(r)
HandleCreateJob(r) ==
    /\ AtHandler(r, "jobs")
    /\ \E f \in BOOLEAN : CreateJob(reqs[r].caller, JobBody, f)
    /\ UNCHANGED applications
    /\ Responded(r)
HandleMatch(r) ==
    /\ AtHandler(r, "match")
    /\ \E jf \in BOOLEAN, rf \in BOOLEAN :
          Match(reqs[r].caller, MatchBody.id, MatchBody.top_n, jf, rf)
    /\ UNCHANGED applications
    /\ Responded(r)
\* HandleAsk with a search that also files an application for the caller
HandleAsk_FilesApplication(r) ==
    /\ AtHandler(r, "ask")
    /\ \E rf \in BOOLEAN, af \in BOOLEAN :
          Ask(reqs[r].caller, AskBody.query, AskBody.k, rf, af)
    /\ applications' = applications \cup
          {[ id |-> NextId(applications), job_id |-> 1, user_id |-> reqs[r].caller.userId,
             resume_id |-> 1, cover_letter |-> "", status |-> "pending", notes |-> "",
               applied_at |-> now ]}
    /\ Responded(r)
HandleAsk(r) ==
    /\ AtHandler(r, "ask")
    /\ \E rf \in BOOLEAN, af \in BOOLEAN :
          Ask(reqs[r].caller, AskBody.query, AskBody.k, rf, af)
    /\ UNCHANGED applications
    /\ Responded(r)
HandleApply(r) ==
    /\ AtHandler(r, "applications")
    /\ \E f \in BOOLEAN : Apply(reqs[r].caller, ApplyBody, f)
    /\ Responded(r)
HandleAdminCreateUser(r) ==
    /\ AtHandler(r, "adminUsers")
    /\ \E f \in BOOLEAN : AdminCreateUser(reqs[r].caller, AdminUserBody, f)
    /\ Responded(r)

ReqIds == 1..MaxReqs

NextIdem ==
    \/ Deliver /\ UNCHANGED <<simVars, rankVars, idemVars>>
    \/ Tick /\ UNCHANGED <<simVars, rankVars, idemVars>>
    \/ \E ep \in Endpoints, key \in Keys \cup {NoKey} : \E c \in EndpointCallers(ep) :
          Arrive(ep, c, key) /\ UNCHANGED simVars
    \/ \E r \in ReqIds, f \in BOOLEAN : IdemLookup(r, f) /\ UNCHANGED simVars
    \/ \E r \in ReqIds, f \in BOOLEAN : StoreIdem(r, f) /\ UNCHANGED simVars
    \/ \E r \in ReqIds : HandleRegister(r)
    \/ \E r \in ReqIds : HandleLogin(r)
    \/ \E r \in ReqIds : HandleUpload(r)
    \/ \E r \in ReqIds : HandleCreateJob(r)
    \/ \E r \in ReqIds : HandleMatch(r)
    \/ \E r \in ReqIds : HandleAsk(r)
    \/ \E r \in ReqIds : HandleApply(r)
    \/ \E r \in ReqIds : HandleAdminCreateUser(r)

SpecIdem == Init /\ [][NextIdem]_vars

\* search and match requests on their way through the middleware and the
\* handler, over uploaded resumes
ServeLookup(r) == \E f \in BOOLEAN : IdemLookup(r, f) /\ UNCHANGED simVars
ServeStore(r) == \E f \in BOOLEAN : StoreIdem(r, f) /\ UNCHANGED simVars
ServeDeliver == Deliver /\ UNCHANGED <<simVars, rankVars, idemVars>>

MaxServed == 1      \* resumes uploaded while requests are served

NextServe ==
    \/ ServeDeliver
    \/ /\ nextResumeId <= MaxServed
       /\ \E c \in Uploaders : UploadResume(c, "cv.txt", "Java engineer")
       /\ UNCHANGED <<simVars, rankVars, idemVars>>
    \/ \E ep \in {"ask", "match"}, key \in Keys \cup {NoKey} : \E c \in EndpointCallers(ep) :
          Arrive(ep, c, key) /\ UNCHANGED simVars
    \/ \E r \in ReqIds : ServeLookup(r)
    \/ \E r \in ReqIds : ServeStore(r)
    \/ \E r \in ReqIds : HandleMatch(r)
    \/ \E r \in ReqIds : HandleAsk(r)

\* Node runs every callback that is ready: the response on its way is sent,
\* the database calls back the lookup, the handler and the INSERT
SpecServe ==
    /\ Init /\ [][NextServe]_vars
    /\ WF_vars(ServeDeliver)
    /\ \A r \in ReqIds :
          /\ WF_vars(ServeLookup(r))
          /\ WF_vars(ServeStore(r))
          /\ WF_vars(HandleMatch(r))
          /\ WF_vars(HandleAsk(r))

----------------------------------------------------------------------------
(* routes/applications.js: POST /api/applications callback by callback.    *)
(* The handler issues three SELECTs and one INSERT, each from the callback *)
(* of the one before; the callbacks of two requests interleave.            *)

\* res.status(...).json(...) of request r
Answer(r, response) ==
    /\ resp' = response
    /\ SetReq(r, IF reqs[r].overridden THEN "storing" ELSE "done",
              reqs[r].overridden, response)
\* the callback issues the next statement
Proceed(r, pc) ==
    /\ resp' = resp
    /\ SetReq(r, pc, reqs[r].overridden, NoResponse)
ApplyFrame ==
    UNCHANGED <<users, resumes, nextResumeId, now, rankVars, idempotency_keys, simVars>>

\* validation, then SELECT * FROM resumes WHERE id = ? AND user_id = ?
ApplySelectResume(r, fails) ==
    /\ resp = NoResponse
    /\ AtHandler(r, "applications")
    /\ IF ApplyBody.job_id = 0 \/ ApplyBody.resume_id = 0
       THEN Answer(r, ErrorResponse("apply", 400, "FIELD_REQUIRED", reqs[r].caller))
       ELSE IF fails
       THEN Answer(r, ErrorResponse("apply", 500, "INTERNAL_ERROR", reqs[r].caller))
       ELSE IF ~\E x \in resumes : x.id = ApplyBody.resume_id
                                      /\ x.user_id = reqs[r].caller.userId
       THEN Answer(r, ErrorResponse("apply", 404, "NOT_FOUND", reqs[r].caller))
       ELSE Proceed(r, "selectJob")
    /\ UNCHANGED applications /\ ApplyFrame

\* SELECT * FROM jobs WHERE id = ?
ApplySelectJob(r, fails) ==
    /\ resp = NoResponse
    /\ Pending(r) /\ reqs[r].pc = "selectJob"
    /\ IF fails
       THEN Answer(r, ErrorResponse("apply", 500, "INTERNAL_ERROR", reqs[r].caller))
       ELSE IF ~\E j \in jobs : j.id = ApplyBody.job_id
       THEN Answer(r, ErrorResponse("apply", 404, "NOT_FOUND", reqs[r].caller))
       ELSE Proceed(r, "selectExisting")
    /\ UNCHANGED applications /\ ApplyFrame

\* SELECT * FROM applications WHERE job_id = ? AND user_id = ?
ApplySelectExisting(r, fails) ==
    /\ resp = NoResponse
    /\ Pending(r) /\ reqs[r].pc = "selectExisting"
    /\ IF fails
       THEN Answer(r, ErrorResponse("apply", 500, "INTERNAL_ERROR", reqs[r].caller))
       ELSE IF \E a \in applications : a.job_id = ApplyBody.job_id
                                          /\ a.user_id = reqs[r].caller.userId
       THEN Answer(r, ErrorResponse("apply", 409, "ALREADY_APPLIED", reqs[r].caller))
       ELSE Proceed(r, "insert")
    /\ UNCHANGED applications /\ ApplyFrame

\* INSERT INTO applications (job_id, user_id, resume_id, cover_letter, status)
ApplyInsert(r, fails) ==
    /\ resp = NoResponse
    /\ Pending(r) /\ reqs[r].pc = "insert"
    /\ IF fails
       THEN /\ Answer(r, ErrorResponse("apply", 500, "INTERNAL_ERROR", reqs[r].caller))
            /\ UNCHANGED applications
       ELSE /\ applications' = applications \cup
                  {[ id |-> NextId(applications), job_id |-> ApplyBody.job_id,
                     user_id |-> reqs[r].caller.userId, resume_id |-> ApplyBody.resume_id,
                     cover_letter |-> "", status |-> "pending", notes |-> "",
                     applied_at |-> now ]}
            /\ Answer(r, [kind |-> "apply", status |-> 201, caller |-> reqs[r].caller,
                          id |-> NextId(applications), job_id |-> ApplyBody.job_id,
                          resume_id |-> ApplyBody.resume_id,
                          application_status |-> "pending", applied_at |-> now])
    /\ ApplyFrame

NextApply ==
    \/ ServeDeliver
    \/ /\ nextResumeId <= MaxServed
       /\ \E c \in Uploaders : UploadResume(c, "cv.txt", "Java engineer")
       /\ UNCHANGED <<simVars, rankVars, idemVars>>
    \/ \E key \in Keys \cup {NoKey} : \E c \in EndpointCallers("applications") :
          Arrive("applications", c, key) /\ UNCHANGED simVars
    \/ \E r \in ReqIds : ServeLookup(r)
    \/ \E r \in ReqIds : ServeStore(r)
    \/ \E r \in ReqIds, f \in BOOLEAN : ApplySelectResume(r, f)
    \/ \E r \in ReqIds, f \in BOOLEAN : ApplySelectJob(r, f)
    \/ \E r \in ReqIds, f \in BOOLEAN : ApplySelectExisting(r, f)
    \/ \E r \in ReqIds, f \in BOOLEAN : ApplyInsert(r, f)

SpecApply == Init /\ [][NextApply]_vars

----------------------------------------------------------------------------
(* routes/admin.js: PATCH and DELETE /api/admin/users/:id. The caller is   *)
(* req.user, the payload of the token: authenticateToken verifies the      *)
(* signature and the expiry and reads no table.                            *)

UserIds == 1..(Cardinality(SeedUsers) + 1)
\* req.body of PATCH /api/admin/users/:id; "" is a field left out
UserUpdates == [name : {"", "Renamed"}, email : {"", "user@example.com"},
                role : {"", "user", "admin", "owner"}]

AdminFrame ==
    UNCHANGED <<resumes, nextResumeId, now, jobs, nextJobId, search_queries,
                job_matches, applications>>

\* the row after UPDATE users SET ... WHERE id = ?
UpdatedUser(user, body) ==
    [user EXCEPT !.name = IF body.name # "" THEN body.name ELSE @,
                 !.email = IF body.email # "" THEN body.email ELSE @,
                 !.role = IF body.role \in Roles THEN body.role ELSE @]

\* PATCH /api/admin/users/:id; readFails, writeFails: a SELECT, the UPDATE fails
AdminUpdateUser(caller, id, body, readFails, writeFails) ==
    /\ resp = NoResponse
    /\ IF caller.role # "admin"
       THEN /\ resp' = ErrorResponse("adminUpdate", 403, "FORBIDDEN", caller)
            /\ UNCHANGED users
       ELSE IF readFails
       THEN /\ resp' = ErrorResponse("adminUpdate", 500, "INTERNAL_ERROR", caller)
            /\ UNCHANGED users
       ELSE IF ~\E u \in users : u.id = id
       THEN /\ resp' = ErrorResponse("adminUpdate", 404, "NOT_FOUND", caller)
            /\ UNCHANGED users
       ELSE LET user == CHOOSE u \in users : u.id = id
            IN  IF /\ body.email # "" /\ body.email # user.email
                   /\ \E u \in users : u.email = body.email /\ u.id # id
                THEN /\ resp' = ErrorResponse("adminUpdate", 409, "EMAIL_EXISTS", caller)
                     /\ UNCHANGED users
                ELSE IF body.name = "" /\ body.email = "" /\ body.role \notin Roles
                THEN /\ resp' = ErrorResponse("adminUpdate", 400, "NO_UPDATES", caller)
                     /\ UNCHANGED users
                ELSE IF writeFails
                THEN /\ resp' = ErrorResponse("adminUpdate", 500, "INTERNAL_ERROR", caller)
                     /\ UNCHANGED users
                ELSE /\ users' = (users \ {user}) \cup {UpdatedUser(user, body)}
                     /\ resp' = [kind |-> "adminUpdate", status |-> 200,
                                 caller |-> caller, id |-> id]
    /\ AdminFrame

\* DELETE /api/admin/users/:id; no statement of the handler touches another
\* table, and the connection never turns foreign key enforcement on
AdminDeleteUser(caller, id, readFails, writeFails) ==
    /\ resp = NoResponse
    /\ IF caller.role # "admin"
       THEN /\ resp' = ErrorResponse("adminDelete", 403, "FORBIDDEN", caller)
            /\ UNCHANGED users
       ELSE IF id = caller.userId
       THEN /\ resp' = ErrorResponse("adminDelete", 400, "CANNOT_DELETE_SELF", caller)
            /\ UNCHANGED users
       ELSE IF readFails
       THEN /\ resp' = ErrorResponse("adminDelete", 500, "INTERNAL_ERROR", caller)
            /\ UNCHANGED users
       ELSE IF ~\E u \in users : u.id = id
       THEN /\ resp' = ErrorResponse("adminDelete", 404, "NOT_FOUND", caller)
            /\ UNCHANGED users
       ELSE IF writeFails
       THEN /\ resp' = ErrorResponse("adminDelete", 500, "INTERNAL_ERROR", caller)
            /\ UNCHANGED users
       ELSE /\ users' = {u \in users : u.id # id}
            /\ resp' = [kind |-> "adminDelete", status |-> 200, caller |-> caller]
    /\ AdminFrame

\* GET /api/auth/me
Me(caller) ==
    /\ resp = NoResponse
    /\ resp' = [kind |-> "me", status |-> 200, caller |-> caller, user |-> caller]
    /\ UNCHANGED users
    /\ AdminFrame

NextAdmin ==
    \/ ServeDeliver
    \/ \E c \in Callers, id \in UserIds, body \in UserUpdates, rf \in BOOLEAN, wf \in BOOLEAN :
          AdminUpdateUser(c, id, body, rf, wf) /\ UNCHANGED <<simVars, idempotency_keys, reqs>>
    \/ \E c \in Callers, id \in UserIds, rf \in BOOLEAN, wf \in BOOLEAN :
          AdminDeleteUser(c, id, rf, wf) /\ UNCHANGED <<simVars, idempotency_keys, reqs>>
    \/ \E c \in Callers : Me(c) /\ UNCHANGED <<simVars, idempotency_keys, reqs>>
    \/ /\ nextJobId <= MaxJobs + 1
       /\ \E c \in Callers, f \in BOOLEAN : CreateJob(c, JobBody, f)
       /\ UNCHANGED <<simVars, idemVars>>

SpecAdmin == Init /\ [][NextAdmin]_vars

----------------------------------------------------------------------------
(* routes/applications.js: GET /api/applications, GET /api/applications/:id *)
(* and PATCH /api/applications/:id/status                                   *)

CanReview(role) == role \in {"recruiter", "admin"}
ApplicationStatuses == {"pending", "reviewing", "accepted", "rejected"}

\* the filters of the list: status "" and job_id 0 are filters left out,
\* and a recruiter is shown the applications to the jobs they created
ApplicationWhere(a, caller, status, job_id) ==
    /\ status # "" => a.status = status
    /\ job_id # 0 => a.job_id = job_id
    /\ caller.role = "recruiter" =>
          \E j \in jobs : j.id = a.job_id /\ j.created_by = caller.userId

\* FROM applications a JOIN jobs j JOIN users u JOIN resumes r
ListedApplications(caller, status, job_id) ==
    {a \in applications :
        /\ \E j \in jobs : j.id = a.job_id
        /\ \E u \in users : u.id = a.user_id
        /\ \E r \in resumes : r.id = a.resume_id
        /\ ApplicationWhere(a, caller, status, job_id)}

\* SELECT COUNT(*) FROM applications a JOIN jobs j
CountedApplications(caller, status, job_id) ==
    {a \in applications :
        /\ \E j \in jobs : j.id = a.job_id
        /\ ApplicationWhere(a, caller, status, job_id)}

\* the sequences that list the rows of S once each, applied_at descending
RECURSIVE OrderedByAppliedDesc(_)
OrderedByAppliedDesc(S) ==
    IF S = {} THEN {<<>>}
    ELSE UNION { {<<a>> \o rest : rest \in OrderedByAppliedDesc(S \ {a})} :
                 a \in {x \in S : \A y \in S : y.applied_at <= x.applied_at} }

ApplicationItem(a) ==
    LET job == CHOOSE j \in jobs : j.id = a.job_id
        applicant == CHOOSE u \in users : u.id = a.user_id
        resume == CHOOSE r \in resumes : r.id = a.resume_id
    IN  [id |-> a.id, job_id |-> a.job_id, job_title |-> job.title,
         applicant_name |-> applicant.name, applicant_email |-> applicant.email,
         resume_filename |-> resume.original_name, cover_letter |-> a.cover_letter,
         status |-> a.status, applied_at |-> a.applied_at]

AppsFrame ==
    UNCHANGED <<users, resumes, nextResumeId, now, jobs, nextJobId, search_queries,
                job_matches>>

\* GET /api/applications?limit&offset&status&job_id; readFails: a query fails
ListApplications(caller, limit, offset, status, job_id, readFails) ==
    /\ resp = NoResponse
    /\ IF ~CanReview(caller.role)
       THEN resp' = ErrorResponse("applications", 403, "FORBIDDEN", caller)
       ELSE IF readFails
       THEN resp' = ErrorResponse("applications", 500, "INTERNAL_ERROR", caller)
       ELSE \E ordered \in OrderedByAppliedDesc(ListedApplications(caller, status, job_id)) :
               LET rows == LimitOffset(ordered, limit, offset)
                   total == Cardinality(CountedApplications(caller, status, job_id))
                   nextOffset == IF offset + limit < total THEN offset + limit ELSE -1
               IN  resp' = [kind |-> "applications", status |-> 200, caller |-> caller,
                            limit |-> limit, offset |-> offset,
                            filter |-> [status |-> status, job_id |-> job_id],
                            items |-> [p \in DOMAIN rows |-> ApplicationItem(rows[p])],
                            next_offset |-> nextOffset, total |-> total]
    /\ UNCHANGED applications /\ AppsFrame

\* GET /api/applications/:id; readFails: the SELECT fails
GetApplication(caller, id, readFails) ==
    /\ resp = NoResponse
    /\ IF readFails
       THEN resp' = ErrorResponse("application", 500, "INTERNAL_ERROR", caller)
       ELSE IF ~\E a \in ListedApplications([role |-> "admin"], "", 0) : a.id = id
       THEN resp' = ErrorResponse("application", 404, "NOT_FOUND", caller)
       ELSE LET row == CHOOSE a \in applications : a.id = id
                canView == \/ caller.role = "admin"
                           \/ caller.role = "recruiter"
                           \/ row.user_id = caller.userId
            IN  IF ~canView
                THEN resp' = ErrorResponse("application", 403, "FORBIDDEN", caller)
                ELSE resp' = [kind |-> "application", status |-> 200, caller |-> caller,
                              item |-> ApplicationItem(row), notes |-> row.notes]
    /\ UNCHANGED applications /\ AppsFrame

\* PATCH /api/applications/:id/status; readFails: the SELECT fails;
\* writeFails: the UPDATE fails
UpdateApplicationStatus(caller, id, status, readFails, writeFails) ==
    /\ resp = NoResponse
    /\ IF ~CanReview(caller.role)
       THEN /\ resp' = ErrorResponse("applicationStatus", 403, "FORBIDDEN", caller)
            /\ UNCHANGED applications
       ELSE IF status \notin ApplicationStatuses
       THEN /\ resp' = ErrorResponse("applicationStatus", 400, "INVALID_STATUS", caller)
            /\ UNCHANGED applications
       ELSE IF readFails
       THEN /\ resp' = ErrorResponse("applicationStatus", 500, "INTERNAL_ERROR", caller)
            /\ UNCHANGED applications
       ELSE IF ~\E a \in CountedApplications(caller, "", 0) : a.id = id
       THEN /\ resp' = ErrorResponse("applicationStatus", 404, "NOT_FOUND", caller)
            /\ UNCHANGED applications
       ELSE IF writeFails
       THEN /\ resp' = ErrorResponse("applicationStatus", 500, "INTERNAL_ERROR", caller)
            /\ UNCHANGED applications
       ELSE /\ applications' =
                  {IF a.id = id THEN [a EXCEPT !.status = status, !.notes = ""] ELSE a :
                      a \in applications}
            /\ resp' = [kind |-> "applicationStatus", status |-> 200, caller |-> caller,
                        id |-> id, application_status |-> status, notes |-> "",
                        updated_at |-> now]
    /\ AppsFrame

MaxApplications == 2
ApplicationIds == 1..MaxApplications
Reviewers == {c \in Callers : CanReview(c.role)}

NextApps ==
    \/ ServeDeliver
    \/ /\ nextResumeId <= MaxServed
       /\ \E c \in Uploaders : UploadResume(c, "cv.txt", "Java engineer")
       /\ UNCHANGED <<simVars, rankVars, idemVars>>
    \/ \E c \in Uploaders, id \in 1..MaxServed :
          DeleteResume(c, id) /\ UNCHANGED <<simVars, rankVars, idemVars>>
    \/ /\ nextJobId <= MaxJobs + 1
       /\ CreateJob(CallerWithRole("admin"), JobBody, FALSE)
       /\ UNCHANGED <<simVars, idemVars>>
    \/ /\ UpdateJob(CallerWithRole("recruiter"), 1, {<<"title", "Lead Engineer">>}, FALSE, FALSE)
       /\ UNCHANGED <<simVars, idemVars>>
    \/ /\ Cardinality(applications) < MaxApplications
       /\ \E c \in Uploaders, job_id \in JobIds, f \in BOOLEAN :
             Apply(c, [job_id |-> job_id, resume_id |-> 1], f)
       /\ UNCHANGED <<simVars, idempotency_keys, reqs>>
    \/ \E id \in {3, 4} :
          AdminDeleteUser(CallerWithRole("admin"), id, FALSE, FALSE)
             /\ UNCHANGED <<simVars, idempotency_keys, reqs>>
    \/ \E c \in Callers, l \in {1, MaxLimit}, s \in {"", "pending"}, f \in BOOLEAN :
          ListApplications(c, l, 0, s, 0, f) /\ UNCHANGED <<simVars, idempotency_keys, reqs>>
    \/ \E c \in Callers, id \in ApplicationIds, f \in BOOLEAN :
          GetApplication(c, id, f) /\ UNCHANGED <<simVars, idempotency_keys, reqs>>
    \/ \E c \in Reviewers, id \in ApplicationIds, s \in {"accepted", "hired"},
          rf \in BOOLEAN, wf \in BOOLEAN :
          UpdateApplicationStatus(c, id, s, rf, wf)
             /\ UNCHANGED <<simVars, idempotency_keys, reqs>>

SpecApps == Init /\ [][NextApps]_vars

----------------------------------------------------------------------------
(* routes/auth.js POST /register, routes/admin.js POST /users and          *)
(* PATCH /users/:id callback by callback: each looks the email up with a   *)
(* SELECT and writes from the callback of that SELECT.                     *)

\* email TEXT UNIQUE NOT NULL: a row other than row id holds the email
EmailTaken(email, id) == \E u \in users : u.email = email /\ u.id # id

\* the three requests compete for one email
ContendedBody == [AdminUserBody EXCEPT !.email = RegisterBody.email]
\* the :id of the PATCH: the user registered last
PatchedUser == Max({u.id : u \in SeedUsers})
PatchBody == [name |-> "", email |-> RegisterBody.email, role |-> ""]

EmailFrame ==
    UNCHANGED <<resumes, nextResumeId, now, rankVars, applications, idempotency_keys,
                simVars>>

\* validation, then SELECT id FROM users WHERE email = ?
RegisterSelect(r, fails) ==
    /\ resp = NoResponse
    /\ AtHandler(r, "register")
    /\ IF RegisterBody.email = "" \/ RegisterBody.password = "" \/ RegisterBody.name = ""
       THEN Answer(r, ErrorResponse("register", 400, "FIELD_REQUIRED", Anonymous))
       ELSE IF RegisterBody.role \notin Roles
       THEN Answer(r, ErrorResponse("register", 400, "INVALID_ROLE", Anonymous))
       ELSE IF fails
       THEN Answer(r, ErrorResponse("register", 500, "INTERNAL_ERROR", Anonymous))
       ELSE IF \E u \in users : u.email = RegisterBody.email
       THEN Answer(r, ErrorResponse("register", 409, "USER_EXISTS", Anonymous))
       ELSE Proceed(r, "insert")
    /\ UNCHANGED users /\ EmailFrame

\* RegisterInsert on a table whose email column is not UNIQUE
RegisterInsert_NoUnique(r, fails) ==
    /\ resp = NoResponse
    /\ Pending(r) /\ reqs[r].pc = "insert" /\ reqs[r].ep = "register"
    /\ IF fails
       THEN /\ Answer(r, ErrorResponse("register", 500, "INTERNAL_ERROR", Anonymous))
            /\ UNCHANGED users
       ELSE /\ users' = users \cup
                  {[ id |-> NextId(users), email |-> RegisterBody.email,
                     password |-> RegisterBody.password, name |-> RegisterBody.name,
                     role |-> RegisterBody.role ]}
            /\ Answer(r, [kind |-> "register", status |-> 201, caller |-> Anonymous,
                          user |-> [id |-> NextId(users), email |-> RegisterBody.email,
                                    name |-> RegisterBody.name, role |-> RegisterBody.role],
                          token |-> Token(NextId(users), RegisterBody.email,
                                          RegisterBody.role)])
    /\ EmailFrame

\* INSERT INTO users (email, password, name, role); fails: the INSERT fails
\* for a reason other than the UNIQUE constraint
RegisterInsert(r, fails) ==
    /\ resp = NoResponse
    /\ Pending(r) /\ reqs[r].pc = "insert" /\ reqs[r].ep = "register"
    /\ IF fails \/ EmailTaken(RegisterBody.email, 0)
       THEN /\ Answer(r, ErrorResponse("register", 500, "INTERNAL_ERROR", Anonymous))
            /\ UNCHANGED users
       ELSE /\ users' = users \cup
                  {[ id |-> NextId(users), email |-> RegisterBody.email,
                     password |-> RegisterBody.password, name |-> RegisterBody.name,
                     role |-> RegisterBody.role ]}
            /\ Answer(r, [kind |-> "register", status |-> 201, caller |-> Anonymous,
                          user |-> [id |-> NextId(users), email |-> RegisterBody.email,
                                    name |-> RegisterBody.name, role |-> RegisterBody.role],
                          token |-> Token(NextId(users), RegisterBody.email,
                                          RegisterBody.role)])
    /\ EmailFrame

\* requireAdmin, validation, then SELECT id FROM users WHERE email = ?
AdminCreateSelect(r, fails) ==
    /\ resp = NoResponse
    /\ AtHandler(r, "adminUsers")
    /\ IF reqs[r].caller.role # "admin"
       THEN Answer(r, ErrorResponse("adminUsers", 403, "FORBIDDEN", reqs[r].caller))
       ELSE IF ContendedBody.name = "" \/ ContendedBody.email = ""
                  \/ ContendedBody.password = ""
       THEN Answer(r, ErrorResponse("adminUsers", 400, "FIELD_REQUIRED", reqs[r].caller))
       ELSE IF ContendedBody.role \notin Roles
       THEN Answer(r, ErrorResponse("adminUsers", 400, "INVALID_ROLE", reqs[r].caller))
       ELSE IF fails
       THEN Answer(r, ErrorResponse("adminUsers", 500, "INTERNAL_ERROR", reqs[r].caller))
       ELSE IF \E u \in users : u.email = ContendedBody.email
       THEN Answer(r, ErrorResponse("adminUsers", 409, "EMAIL_EXISTS", reqs[r].caller))
       ELSE Proceed(r, "insert")
    /\ UNCHANGED users /\ EmailFrame

\* INSERT INTO users (name, email, password, role)
AdminCreateInsert(r, fails) ==
    /\ resp = NoResponse
    /\ Pending(r) /\ reqs[r].pc = "insert" /\ reqs[r].ep = "adminUsers"
    /\ IF fails \/ EmailTaken(ContendedBody.email, 0)
       THEN /\ Answer(r, ErrorResponse("adminUsers", 500, "INTERNAL_ERROR", reqs[r].caller))
            /\ UNCHANGED users
       ELSE /\ users' = users \cup
                  {[ id |-> NextId(users), email |-> ContendedBody.email,
                     password |-> ContendedBody.password, name |-> ContendedBody.name,
                     role |-> ContendedBody.role ]}
            /\ Answer(r, [kind |-> "adminUsers", status |-> 201, caller |-> reqs[r].caller,
                          id |-> NextId(users), name |-> ContendedBody.name,
                          email |-> ContendedBody.email, role |-> ContendedBody.role,
                          created_at |-> now])
    /\ EmailFrame

\* updateUser() before its UPDATE: a body with no valid field is answered 400
PatchUpdateOrRefuse(r) ==
    IF PatchBody.name = "" /\ PatchBody.email = "" /\ PatchBody.role \notin Roles
    THEN Answer(r, ErrorResponse("adminUpdate", 400, "NO_UPDATES", reqs[r].caller))
    ELSE Proceed(r, "update")

\* requireAdmin, then SELECT * FROM users WHERE id = ?
PatchSelectUser(r, fails) ==
    /\ resp = NoResponse
    /\ AtHandler(r, "patchUser")
    /\ IF reqs[r].caller.role # "admin"
       THEN Answer(r, ErrorResponse("adminUpdate", 403, "FORBIDDEN", reqs[r].caller))
       ELSE IF fails
       THEN Answer(r, ErrorResponse("adminUpdate", 500, "INTERNAL_ERROR", reqs[r].caller))
       ELSE IF ~\E u \in users : u.id = PatchedUser
       THEN Answer(r, ErrorResponse("adminUpdate", 404, "NOT_FOUND", reqs[r].caller))
       ELSE LET user == CHOOSE u \in users : u.id = PatchedUser
            IN  IF PatchBody.email # "" /\ PatchBody.email # user.email
                THEN Proceed(r, "selectEmail")
                ELSE PatchUpdateOrRefuse(r)
    /\ UNCHANGED users /\ EmailFrame

\* SELECT id FROM users WHERE email = ? AND id != ?
PatchSelectEmail(r, fails) ==
    /\ resp = NoResponse
    /\ Pending(r) /\ reqs[r].pc = "selectEmail"
    /\ IF fails
       THEN Answer(r, ErrorResponse("adminUpdate", 500, "INTERNAL_ERROR", reqs[r].caller))
       ELSE IF EmailTaken(PatchBody.email, PatchedUser)
       THEN Answer(r, ErrorResponse("adminUpdate", 409, "EMAIL_EXISTS", reqs[r].caller))
       ELSE PatchUpdateOrRefuse(r)
    /\ UNCHANGED users /\ EmailFrame

\* UPDATE users SET ... WHERE id = ?
PatchUpdate(r, fails) ==
    /\ resp = NoResponse
    /\ Pending(r) /\ reqs[r].pc = "update"
    /\ IF fails \/ (/\ PatchBody.email # ""
                    /\ \E u \in users : u.id = PatchedUser
                    /\ EmailTaken(PatchBody.email, PatchedUser))
       THEN /\ Answer(r, ErrorResponse("adminUpdate", 500, "INTERNAL_ERROR", reqs[r].caller))
            /\ UNCHANGED users
       ELSE /\ users' = {IF u.id = PatchedUser THEN UpdatedUser(u, PatchBody) ELSE u :
                            u \in users}
            /\ Answer(r, [kind |-> "adminUpdate", status |-> 200,
                          caller |-> reqs[r].caller, id |-> PatchedUser])
    /\ EmailFrame

NextEmails ==
    \/ ServeDeliver
    \/ \E ep \in {"register", "adminUsers", "patchUser"} :
          /\ Arrive(ep, IF ep = "register" THEN Anonymous ELSE CallerWithRole("admin"),
                    NoKey)
          /\ UNCHANGED simVars
    \/ \E r \in ReqIds, f \in BOOLEAN : RegisterSelect(r, f)
    \/ \E r \in ReqIds, f \in BOOLEAN : RegisterInsert(r, f)
    \/ \E r \in ReqIds, f \in BOOLEAN : AdminCreateSelect(r, f)
    \/ \E r \in ReqIds, f \in BOOLEAN : AdminCreateInsert(r, f)
    \/ \E r \in ReqIds, f \in BOOLEAN : PatchSelectUser(r, f)
    \/ \E r \in ReqIds, f \in BOOLEAN : PatchSelectEmail(r, f)
    \/ \E r \in ReqIds, f \in BOOLEAN : PatchUpdate(r, f)

SpecEmails == Init /\ [][NextEmails]_vars

----------------------------------------------------------------------------
(* A client walks the pages of GET /api/applications as the Load More of   *)
(* client/src/pages/Jobs.js does: it asks for offset 0, then for the       *)
(* next_offset of the page it received, with the limit it started with.    *)
(* reqs holds the requests of the walk, each with the page it received.    *)

MaxPages == 3
Null == -1          \* next_offset: null
WalkLimits == 0..MaxLimit
Walker == CallerWithRole("admin")

LastPage == reqs[Len(reqs)].resp

\* the request of the walk that asks for offset with limit
FetchPage(limit, offset) ==
    /\ ListApplications(Walker, limit, offset, "", 0, FALSE)
    /\ reqs' = Append(reqs, [ep |-> "applications", caller |-> Walker, key |-> NoKey,
                             pc |-> "done", overridden |-> FALSE, resp |-> resp'])
    /\ UNCHANGED <<simVars, idempotency_keys>>

\* fetchJobs with pagination.offset 0
WalkStart(limit) ==
    /\ reqs = <<>>
    /\ FetchPage(limit, 0)

\* loadMore: if (pagination.nextOffset !== null) offset = nextOffset
LoadMore ==
    /\ reqs # <<>>
    /\ Len(reqs) < MaxPages
    /\ LastPage.next_offset # Null
    /\ FetchPage(LastPage.limit, LastPage.next_offset)

\* the store is filled before the walk and left alone during it
NextWalk ==
    \/ ServeDeliver
    \/ /\ reqs = <<>>
       /\ Tick
       /\ UNCHANGED <<simVars, rankVars, idemVars>>
    \/ /\ reqs = <<>>
       /\ nextResumeId <= MaxServed
       /\ \E c \in Uploaders : UploadResume(c, "cv.txt", "Java engineer")
       /\ UNCHANGED <<simVars, rankVars, idemVars>>
    \/ /\ reqs = <<>>
       /\ nextJobId <= MaxJobs + 1
       /\ CreateJob(CallerWithRole("admin"), JobBody, FALSE)
       /\ UNCHANGED <<simVars, idemVars>>
    \/ /\ reqs = <<>>
       /\ Cardinality(applications) < MaxApplications
       /\ \E c \in Uploaders, job_id \in JobIds :
             Apply(c, [job_id |-> job_id, resume_id |-> 1], FALSE)
       /\ UNCHANGED <<simVars, idempotency_keys, reqs>>
    \/ \E limit \in WalkLimits : WalkStart(limit)
    \/ LoadMore

SpecWalk ==
    Init /\ [][NextWalk]_vars /\ WF_vars(ServeDeliver) /\ WF_vars(LoadMore)

----------------------------------------------------------------------------
(* Claims about the ranked results                                         *)

InUnitInterval(s) == Ge(s, Zero) /\ Ge(One, s)
AskAnswered == resp.kind = "ask" /\ resp.status = 200
MatchAnswered == resp.kind = "match" /\ resp.status = 200

\* C7: every similarity_score returned by POST /api/ask and every
\* match_score returned by POST /api/jobs/:id/match is a number s with
\* 0 <= s <= 1, never NaN.
C7_ReturnedScoresInUnitInterval ==
    /\ AskAnswered =>
          \A i \in DOMAIN resp.results : InUnitInterval(resp.results[i].similarity_score)
    /\ MatchAnswered =>
          \A i \in DOMAIN resp.matches : InUnitInterval(resp.matches[i].match_score)

\* a search has returned a resume whose similarity to the query is 1
C7_Witness ==
    /\ AskAnswered
    /\ \E i \in DOMAIN resp.results : resp.results[i].similarity_score = One

\* the score of a stored resume on the scale of the answer in resp
AnsweredScore(r) ==
    IF resp.kind = "ask"
    THEN SearchTable[r.content][resp.query].similarity
    ELSE MatchTable[PostingOf(CHOOSE j \in jobs : j.id = resp.job_id)][r.content].match_score
\* the scores of the answer in resp, in the order returned
ReturnedScores ==
    IF resp.kind = "ask"
    THEN [i \in DOMAIN resp.results |-> resp.results[i].similarity_score]
    ELSE [i \in DOMAIN resp.matches |-> resp.matches[i].match_score]
ReturnedIds ==
    IF resp.kind = "ask"
    THEN {resp.results[i].resume_id : i \in DOMAIN resp.results}
    ELSE {resp.matches[i].resume_id : i \in DOMAIN resp.matches}
\* the candidates that qualify for the answer in resp and are not in it
LeftOut ==
    IF resp.kind = "ask"
    THEN {r \in SearchScope(resp.caller) :
             Gt(AnsweredScore(r), RELEVANCE_FLOOR) /\ r.id \notin ReturnedIds}
    ELSE {r \in MatchScope : Gt(AnsweredScore(r), Zero) /\ r.id \notin ReturnedIds}

\* C10: in every result list returned by search or match the scores are
\* non-increasing from one position to the next, and no qualifying candidate
\* left out by the truncation scores strictly higher than a returned one.
C10_RankedTopDescending ==
    (AskAnswered \/ MatchAnswered) =>
        /\ \A i \in 1..(Len(ReturnedScores) - 1) :
              Ge(ReturnedScores[i], ReturnedScores[i + 1])
        /\ \A r \in LeftOut : \A i \in DOMAIN ReturnedScores :
              ~Gt(AnsweredScore(r), ReturnedScores[i])

\* a search answered with one result while a qualifying resume of strictly
\* lower score was cut off
C10_Witness ==
    /\ AskAnswered
    /\ Len(resp.results) = 1
    /\ \E r \in LeftOut : Gt(ReturnedScores[1], AnsweredScore(r))

\* the candidates that qualify for the answer in resp
Qualifying ==
    IF resp.kind = "ask"
    THEN {r \in SearchScope(resp.caller) : Gt(AnsweredScore(r), RELEVANCE_FLOOR)}
    ELSE {r \in MatchScope : Gt(AnsweredScore(r), Zero)}

\* C11: the number of returned items is at most the count the caller sent
\* (k, top_n), at most the cap of the endpoint (10, 20) and at most the
\* number of candidates above the floor; total_found / total_matches is the
\* number of returned items.
C11_Truncation ==
    /\ AskAnswered =>
          /\ Len(resp.results) <= resp.k
          /\ Len(resp.results) <= 10
          /\ Len(resp.results) <= Cardinality(Qualifying)
          /\ resp.total_found = Len(resp.results)
    /\ MatchAnswered =>
          /\ Len(resp.matches) <= resp.top_n
          /\ Len(resp.matches) <= 20
          /\ Len(resp.matches) <= Cardinality(Qualifying)
          /\ resp.total_matches = Len(resp.matches)

\* C12: every result of POST /api/ask has similarity_score > 0.01; it is
\* 'high' exactly when the score is > 0.1, 'medium' exactly when
\* 0.05 < score <= 0.1, 'low' otherwise; a candidate at or below the floor is
\* dropped and the request still succeeds.
C12_SearchFloorAndTiers ==
    AskAnswered =>
        /\ \A i \in DOMAIN resp.results :
              LET score == resp.results[i].similarity_score
                  relevance == resp.results[i].relevance
              IN  /\ Gt(score, Quot(1, 100))
                  /\ relevance \in {"high", "medium", "low"}
                  /\ relevance = "high" <=> Gt(score, Quot(1, 10))
                  /\ relevance = "medium" <=>
                        (Gt(score, Quot(5, 100)) /\ Ge(Quot(1, 10), score))
        /\ \A r \in SearchScope(resp.caller) :
              ~Gt(AnsweredScore(r), Quot(1, 100)) => r.id \notin ReturnedIds

\* a search has returned a result whose score is exactly 0.1, labelled medium
C12_Witness ==
    /\ AskAnswered
    /\ \E i \in DOMAIN resp.results :
          /\ resp.results[i].similarity_score = Quot(1, 10)
          /\ resp.results[i].relevance = "medium"

\* C13: every match returned by POST /api/jobs/:id/match has match_score > 0
\* and is 'strong' exactly when match_score > 0.3, 'moderate' exactly when
\* 0.1 < match_score <= 0.3, 'weak' otherwise.
C13_RecommendationAgreesWithScore ==
    MatchAnswered =>
        \A i \in DOMAIN resp.matches :
            LET score == resp.matches[i].match_score
                recommendation == resp.matches[i].recommendation
            IN  /\ Gt(score, Zero)
                /\ recommendation \in {"strong", "moderate", "weak"}
                /\ recommendation = "strong" <=> Gt(score, Quot(3, 10))
                /\ recommendation = "moderate" <=>
                      (Gt(score, Quot(1, 10)) /\ Ge(Quot(3, 10), score))

\* the keywords of each posting and of each stored text: the words longer
\* than 3 of the lower-cased text, in order
JobKeywordTable ==
    [posting \in {PostingOf(j) : j \in JobPostings \cup {SeedJob}} |->
        SelectSeq(split(JobText(posting), NonSpace), LongerThan3)]
ResumeKeywordTable ==
    [content \in Contents |->
        SelectSeq(split(toLowerCase(content), NonSpace), LongerThan3)]
FirstUpTo(seq, n) == SubSeq(seq, 1, IF Len(seq) < n THEN Len(seq) ELSE n)
\* for each posting and stored text: the job keywords with a match in the
\* text and those without, each in job-keyword order, by position
ClassifiedTable ==
    [posting \in DOMAIN JobKeywordTable |->
        [content \in Contents |->
            LET jobKeywords == JobKeywordTable[posting]
                resumeKeywords == ResumeKeywordTable[content]
                IsMatched(p) ==
                    \E q \in DOMAIN resumeKeywords :
                        Overlaps(resumeKeywords[q], jobKeywords[p])
                matchedAt == {p \in DOMAIN jobKeywords : IsMatched(p)}
                missingAt == {p \in DOMAIN jobKeywords : ~IsMatched(p)}
                InOrder(positions) ==
                    [n \in 1..Cardinality(positions) |->
                        jobKeywords[CHOOSE p \in positions :
                            Cardinality({o \in positions : o < p}) = n - 1]]
            IN  [ keywords |-> Len(jobKeywords),
                  matched |-> InOrder(matchedAt),
                  missing |-> InOrder(missingAt) ]]]

\* C14: each occurrence of a job keyword is either matched or missing;
\* evidence is the first min(5, |matched|) matched keywords and
\* missing_requirements the first min(5, |missing|) unmatched keywords, both
\* in job-keyword order; each list has at most 5 entries and the two lists
\* share no keyword.
C14_EvidenceLists ==
    MatchAnswered =>
        \A i \in DOMAIN resp.matches :
            LET job == CHOOSE j \in jobs : j.id = resp.job_id
                resume == CHOOSE r \in resumes : r.id = resp.matches[i].resume_id
                classified == ClassifiedTable[PostingOf(job)][resume.content]
                evidence == resp.matches[i].evidence
                missing == resp.matches[i].missing_requirements
            IN  /\ Len(classified.matched) + Len(classified.missing) = classified.keywords
                /\ evidence = FirstUpTo(classified.matched, 5)
                /\ missing = FirstUpTo(classified.missing, 5)
                /\ Len(evidence) <= 5 /\ Len(missing) <= 5
                /\ Range(evidence) \cap Range(missing) = {}

\* a match has been returned with three matched keywords as evidence and
\* five of the many missing keywords
C14_Witness ==
    /\ MatchAnswered
    /\ \E i \in DOMAIN resp.matches :
          /\ Len(resp.matches[i].evidence) = 3
          /\ Len(resp.matches[i].missing_requirements) = 5

\* extractSnippets on its own: every text of at most MaxSentences sentences,
\* each closed by one of . ! ?, with every query and every k up to MaxSnippets
MaxSentences == 3
MaxSnippets == 3
SnipSentences == {"Python developer", " Short one", "  Java and SQL engineer  "}
SnipClosers == {".", "?!"}
SnipQueries == {"", "python sql", "java react node"}

RECURSIVE SnipTextsUpTo(_)
SnipTextsUpTo(n) ==
    IF n = 0 THEN {""}
    ELSE LET shorter == SnipTextsUpTo(n - 1)
         IN  shorter \cup {t \o sentence \o closer :
                              t \in shorter, sentence \in SnipSentences,
                              closer \in SnipClosers}
SnipTexts == SnipTextsUpTo(MaxSentences)

InitSnip ==
    /\ InitStore
    /\ simA \in SnipTexts
    /\ simB \in SnipQueries
    /\ simOut = <<>>

\* one call extractSnippets(simA, simB, k); simOut keeps k and the result
SnipCall(k) ==
    /\ simOut = <<>>
    /\ simOut' = <<k, extractSnippets(simA, simB, k)>>
    /\ UNCHANGED <<simA, simB>>
    /\ UNCHANGED <<storeVars, rankVars, idemVars>>

NextSnip == \E k \in 0..MaxSnippets : SnipCall(k)

SpecSnip == InitSnip /\ [][NextSnip]_vars

ListScopeSize ==
    IF resp.kind = "history" THEN Len(search_queries)
    ELSE Cardinality(JoinedMatches(resp.job_id))

\* C17: a list response reports as total the number of all stored items in
\* the request's scope, and as next_offset offset+limit when items remain
\* beyond the returned page and null when none remain (GET /api/ask/history
\* and GET /api/jobs/:id/matches; null is not a number, and these two routes
\* never answer it).
C17_ListEnvelope ==
    (resp.kind \in {"history", "matches"} /\ resp.status = 200) =>
        /\ resp.total = ListScopeSize
        /\ IF resp.offset + Len(resp.items) < ListScopeSize
           THEN resp.next_offset = resp.offset + resp.limit
           ELSE resp.next_offset \notin Int

\* C20: the text of a stored Document (a resume's content; a job's title,
\* description and requirements) is the text it was created with for as
\* long as the Document is stored: no step changes it.
C20_DocumentsImmutable ==
    [][ /\ \A r \in resumes : \A r2 \in resumes' :
              r2.id = r.id => r2.content = r.content
        /\ \A j \in jobs : \A j2 \in jobs' :
              j2.id = j.id => /\ j2.title = j.title
                              /\ j2.description = j.description
                              /\ j2.requirements = j.requirements ]_vars

Answered(r) == Pending(r) /\ reqs[r].resp # NoResponse
\* a ranked list, or an error envelope, not both
ListOrError(response) ==
    IF response.status = 200
    THEN /\ "code" \notin DOMAIN response
         /\ \/ response.kind = "ask" /\ "results" \in DOMAIN response
            \/ response.kind = "match" /\ "matches" \in DOMAIN response
    ELSE /\ "code" \in DOMAIN response
         /\ "results" \notin DOMAIN response
         /\ "matches" \notin DOMAIN response

RankedFor(retrieved) ==
    IF resp.kind = "ask"
    THEN RankSearch([i \in DOMAIN retrieved |-> SearchResult(retrieved[i], resp.query)],
                    IF resp.k < SEARCH_MAX_RESULTS THEN resp.k ELSE SEARCH_MAX_RESULTS)
    ELSE RankMatches([i \in DOMAIN retrieved |->
                         MatchResult(CHOOSE j \in jobs : j.id = resp.job_id, retrieved[i])],
                     IF resp.top_n < MATCH_MAX_RESULTS THEN resp.top_n
                     ELSE MATCH_MAX_RESULTS)
AnsweredScope == IF resp.kind = "ask" THEN SearchScope(resp.caller) ELSE MatchScope
ReturnedList == IF resp.kind = "ask" THEN resp.results ELSE resp.matches

\* C16: a second run of the same search or match by the same caller on the
\* unchanged store returns the same ordered list as the run answered in
\* resp, whatever order the store returns the candidates in.
C16_RankingDeterministic ==
    (AskAnswered \/ MatchAnswered) =>
        /\ \E retrieved \in AnyOrder(AnsweredScope) : RankedFor(retrieved) = ReturnedList
        /\ \A retrieved \in AnyOrder(AnsweredScope) : RankedFor(retrieved) = ReturnedList

\* searches and matches over the seeded job and uploaded resumes, with
\* every pattern of failing statements
NextAudit ==
    \/ Deliver /\ UNCHANGED <<simVars, rankVars, idemVars>>
    \/ \E c \in Uploaders, t \in {"Java engineer", "python and java"} :
          UploadResume(c, "cv.txt", t) /\ UNCHANGED <<simVars, rankVars, idemVars>>
    \/ /\ Len(search_queries) < MaxSearches
       /\ \E c \in Callers, q \in Queries, k \in CountInputs, rf \in BOOLEAN, af \in BOOLEAN :
             Ask(c, q, k, rf, af)
       /\ UNCHANGED <<simVars, idemVars>>
    \/ /\ Len(job_matches) < MaxMatchRows
       /\ \E c \in Callers, id \in JobIds, n \in CountInputs, jf \in BOOLEAN, rf \in BOOLEAN :
             Match(c, id, n, jf, rf)
       /\ UNCHANGED <<simVars, idemVars>>

SpecAudit == Init /\ [][NextAudit]_vars

\* the ranked lists POST /api/ask returns to caller for query and k when
\* every statement succeeds
SearchLists(caller, query, k) ==
    { RankSearch([i \in DOMAIN retrieved |-> SearchResult(retrieved[i], query)],
                 IF k < SEARCH_MAX_RESULTS THEN k ELSE SEARCH_MAX_RESULTS) :
        retrieved \in AnyOrder(SearchScope(caller)) }
\* the ranked lists POST /api/jobs/:id/match returns for job id and top_n
MatchLists(id, top_n) ==
    { RankMatches([i \in DOMAIN retrieved |->
                      MatchResult(CHOOSE j \in jobs : j.id = id, retrieved[i])],
                  IF top_n < MATCH_MAX_RESULTS THEN top_n ELSE MATCH_MAX_RESULTS) :
        retrieved \in AnyOrder(MatchScope) }
\* a step of POST /api/ask whose SELECT succeeds and whose INSERT fails
AskAuditFailing ==
    /\ resp'.kind = "ask"
    /\ \E q \in Queries \ {""}, k \in CountInputs : Ask(resp'.caller, q, k, FALSE, TRUE)
\* a step of POST /api/jobs/:id/match whose SELECTs succeed, whichever of
\* its INSERTs fail
MatchReading ==
    /\ resp'.kind = "match"
    /\ CanPostJobs(resp'.caller.role)
    /\ \E j \in jobs, n \in CountInputs : Match(resp'.caller, j.id, n, FALSE, FALSE)

\* C18: when the candidate read succeeds and the INSERT of the audit record
\* fails (the search_queries row of a search; any of the job_matches rows of
\* a match), the request is answered 200 with the full ranked list, one of
\* the lists it returns when the INSERT succeeds.
C18_AuditFailureNotFatal ==
    [][ /\ AskAuditFailing =>
              /\ resp'.status = 200
              /\ resp'.results \in SearchLists(resp'.caller, resp'.query, resp'.k)
              /\ resp'.total_found = Len(resp'.results)
        /\ MatchReading =>
              /\ resp'.status = 200
              /\ resp'.matches \in MatchLists(resp'.job_id, resp'.top_n)
              /\ resp'.total_matches = Len(resp'.matches) ]_vars

\* a search was answered 200 with results and no search_queries row was
\* written
C18_Witness ==
    /\ AskAnswered
    /\ Len(resp.results) > 0
    /\ search_queries = <<>>

----------------------------------------------------------------------------
(* Claims about the idempotency keys                                       *)

SameKey(r1, r2) ==
    /\ r1 # r2
    /\ reqs[r1].key # NoKey
    /\ reqs[r1].key = reqs[r2].key
    /\ reqs[r1].ep = reqs[r2].ep
\* request r leaves the place where it stands
Steps(r) == reqs'[r].pc # reqs[r].pc
HandlerTables == <<users, resumes, jobs, search_queries, job_matches, applications>>

\* C3: once a request with an Idempotency-Key has completed and its
\* response is stored, a later request with the same key is answered with
\* the same status and body as the first, and no handler runs for it: no
\* table row is written.
C3_SequentialReplay ==
    [][\A r1 \in DOMAIN reqs : \A r2 \in DOMAIN reqs :
          (/\ SameKey(r1, r2)
           /\ reqs[r1].pc = "stored"
           /\ reqs[r2].pc = "lookup"
           /\ Steps(r2))
          => /\ reqs'[r2].pc = "replayed"
             /\ reqs'[r2].resp = reqs[r1].resp
             /\ UNCHANGED HandlerTables]_vars

\* both requests found no stored row for their key and have answered
BothRan(r1, r2) ==
    /\ reqs[r1].overridden /\ reqs[r1].pc \in {"storing", "stored", "dropped"}
    /\ reqs[r2].overridden /\ reqs[r2].pc \in {"storing", "stored", "dropped"}

\* C4: two requests with the same Idempotency-Key that overlap in time end
\* as if one had run after the other: both callers receive the same
\* response, and one record is kept for the key.
C4_ConcurrentSameKeySerialized ==
    \A r1 \in DOMAIN reqs : \A r2 \in DOMAIN reqs :
        (SameKey(r1, r2) /\ BothRan(r1, r2))
        => /\ reqs[r1].resp = reqs[r2].resp
           /\ Cardinality({row \in idempotency_keys : row.key = reqs[r1].key}) <= 1

\* C5: on every POST endpoint, a request repeated with the Idempotency-Key
\* of a request that has completed is answered with the response of that
\* request and performs no operation: no table row is written.
C5_EveryPostEndpointIdempotent ==
    [][\A r1 \in DOMAIN reqs : \A r2 \in DOMAIN reqs :
          (/\ SameKey(r1, r2)
           /\ reqs[r1].pc \in {"stored", "done"}
           /\ reqs[r2].pc \in {"lookup", "handler"}
           /\ ~reqs[r2].overridden
           /\ Steps(r2))
          => /\ reqs'[r2].resp = reqs[r1].resp
             /\ UNCHANGED HandlerTables]_vars

----------------------------------------------------------------------------
(* Claims about what the requests leave alone                              *)

IsPrefix(short, long) ==
    Len(short) <= Len(long) /\ SubSeq(long, 1, Len(short)) = short
\* request r is a search or a match and this step is one of its steps
ScoringStep(r) == reqs[r].ep \in {"ask", "match"} /\ reqs'[r] # reqs[r]

\* C21: every step of a POST /api/ask or POST /api/jobs/:id/match request,
\* answered 200 or not, leaves users, resumes, jobs and applications as they
\* are; it only appends search_queries and job_matches rows and adds
\* idempotency_keys rows.
C21_ScoringOnlyReads ==
    [][\A r \in DOMAIN reqs :
          ScoringStep(r) =>
              /\ users' = users /\ resumes' = resumes
              /\ jobs' = jobs /\ applications' = applications
              /\ IsPrefix(search_queries, search_queries')
              /\ IsPrefix(job_matches, job_matches')
              /\ idempotency_keys \subseteq idempotency_keys']_vars

\* a search was answered 200 over the stored users and jobs and left its
\* audit row
C21_Witness ==
    /\ \E r \in DOMAIN reqs : reqs[r].ep = "ask" /\ reqs[r].resp # NoResponse
                                 /\ reqs[r].resp.status = 200
    /\ search_queries # <<>>
    /\ users # {} /\ jobs # {}

\* C22: a stored response is replayed only to a request of the caller and
\* the endpoint that produced it: a request answered from idempotency_keys
\* has an earlier request with its key, its endpoint and its caller that was
\* sent the same response.
C22_IdempotencyIsolated ==
    \A r \in DOMAIN reqs :
        reqs[r].pc = "replayed" =>
            \E q \in DOMAIN reqs :
                /\ q # r
                /\ reqs[q].key = reqs[r].key
                /\ reqs[q].ep = reqs[r].ep
                /\ reqs[q].caller = reqs[r].caller
                /\ reqs[q].resp = reqs[r].resp

\* the resume a search result describes belongs to the caller
OwnResult(result, caller) ==
    \E r \in resumes : r.id = result.resume_id /\ r.user_id = caller.userId

\* C23: no response of POST /api/ask or GET /api/ask/history to a caller of
\* role 'user' carries a result (filename, uploader, snippets) of a resume
\* that another user owns.
C23_UserSeesOnlyOwnResults ==
    (resp.kind \in {"ask", "history"} /\ resp.status = 200 /\ resp.caller.role = "user") =>
        /\ resp.kind = "ask" =>
              \A i \in DOMAIN resp.results : OwnResult(resp.results[i], resp.caller)
        /\ resp.kind = "history" =>
              \A i \in DOMAIN resp.items :
                 \A j \in DOMAIN resp.items[i].results :
                    OwnResult(resp.items[i].results[j], resp.caller)

\* C24: applications holds at most one row for any (job_id, user_id), and
\* of the requests of one user for one job at most one is answered 201,
\* however the callbacks of the requests interleave.
C24_OneApplicationPerUserAndJob ==
    /\ \A a \in applications, b \in applications :
          (a.job_id = b.job_id /\ a.user_id = b.user_id) => a = b
    /\ \A r \in DOMAIN reqs, q \in DOMAIN reqs :
          (/\ r # q
           /\ reqs[r].ep = "applications" /\ reqs[q].ep = "applications"
           /\ reqs[r].caller = reqs[q].caller
           /\ reqs[r].resp # NoResponse /\ reqs[q].resp # NoResponse
           /\ ~(reqs[r].pc = "replayed" \/ reqs[q].pc = "replayed"))
              => ~(reqs[r].resp.status = 201 /\ reqs[q].resp.status = 201)

\* the stored role of the user a token names, "none" once the row is gone
StoredRole(caller) ==
    IF \E u \in users : u.id = caller.userId
    THEN (CHOOSE u \in users : u.id = caller.userId).role
    ELSE "none"

\* C25: a request is authorized by the stored role of its user at the time
\* of the request, not by the role its token was issued with: a job is
\* created only for a stored recruiter or admin, a user is updated or
\* deleted only for a stored admin, and a profile is served only to a user
\* that still exists.
C25_StoredRoleAuthorizes ==
    /\ (resp.kind = "createJob" /\ resp.status = 201)
          => CanPostJobs(StoredRole(resp.caller))
    /\ (resp.kind = "adminDelete" /\ resp.status = 200)
          => StoredRole(resp.caller) = "admin"
    /\ (resp.kind = "me" /\ resp.status = 200)
          => StoredRole(resp.caller) # "none"

\* C26: every applications row references a user, a job and a resume that
\* exist, the resume being the applicant's, and a list of applications
\* counts in total exactly the rows it lists from.
C26_ApplicationsReferToRows ==
    /\ \A a \in applications :
          /\ \E u \in users : u.id = a.user_id
          /\ \E j \in jobs : j.id = a.job_id
          /\ \E r \in resumes : r.id = a.resume_id /\ r.user_id = a.user_id
    /\ (resp.kind = "applications" /\ resp.status = 200) =>
          resp.total = Cardinality(ListedApplications(resp.caller, resp.filter.status,
                                                      resp.filter.job_id))

\* the user who created job job_id, and the job application id was made to
JobCreator(job_id) == (CHOOSE j \in jobs : j.id = job_id).created_by
AppliedJob(id) == (CHOOSE a \in applications : a.id = id).job_id

\* C27: a recruiter is sent, by the list and by the detail route, only
\* applications to jobs the recruiter created, and changes the status of
\* such applications only.
C27_RecruiterSeesOwnJobsOnly ==
    (resp.kind \in {"applications", "application", "applicationStatus"}
        /\ resp.status = 200 /\ resp.caller.role = "recruiter") =>
       /\ resp.kind = "applications" =>
             \A p \in DOMAIN resp.items : JobCreator(resp.items[p].job_id) = resp.caller.userId
       /\ resp.kind = "application" => JobCreator(resp.item.job_id) = resp.caller.userId
       /\ resp.kind = "applicationStatus" => JobCreator(AppliedJob(resp.id)) = resp.caller.userId

\* C28: job_matches holds at most one row per job and resume, and a list of
\* the matches of a job names each resume at most once.
C28_OneMatchRowPerPair ==
    /\ \A i \in DOMAIN job_matches, j \in DOMAIN job_matches :
          (/\ job_matches[i].job_id = job_matches[j].job_id
           /\ job_matches[i].resume_id = job_matches[j].resume_id) => i = j
    /\ (resp.kind = "matches" /\ resp.status = 200) =>
          \A p \in DOMAIN resp.items, q \in DOMAIN resp.items :
             resp.items[p].resume_id = resp.items[q].resume_id => p = q

\* the row a request writes: 0 for a new row
WrittenRow(r) == IF reqs[r].ep = "patchUser" THEN PatchedUser ELSE 0
\* request r is answered in this step
AnsweredNow(r) == reqs[r].resp = NoResponse /\ reqs'[r].resp # NoResponse
EmailWriter(r) == reqs[r].ep \in {"register", "adminUsers", "patchUser"}

\* C29: no two users rows share an email, and a request answered while
\* another row holds its email leaves users unchanged and is answered with
\* an error.
C29_EmailsUnique ==
    /\ [](\A u \in users, v \in users : u.email = v.email => u.id = v.id)
    /\ [][\A r \in DOMAIN reqs :
             (/\ EmailWriter(r) /\ AnsweredNow(r)
              /\ EmailTaken(RegisterBody.email, WrittenRow(r)))
                => (users' = users /\ reqs'[r].resp.status >= 400)]_vars

\* a request passed its lookup, found the email taken at its write and was
\* answered 500, the other request having written the email
C29_Witness ==
    \E r \in DOMAIN reqs, q \in DOMAIN reqs :
       /\ r # q /\ EmailWriter(r) /\ EmailWriter(q)
       /\ reqs[r].resp # NoResponse /\ reqs[r].resp.status \in {200, 201}
       /\ reqs[q].resp # NoResponse /\ reqs[q].resp.status = 500
       /\ Cardinality({u \in users : u.email = RegisterBody.email}) = 1

\* the walk has received a page whose next_offset is null
WalkDone == reqs # <<>> /\ LastPage.next_offset = Null
\* the positions of the pages received at which application id is listed
ListedAt(id) ==
    {<<p, i>> \in (DOMAIN reqs) \X (1..MaxApplications) :
        i \in DOMAIN reqs[p].resp.items /\ reqs[p].resp.items[i].id = id}

\* a walk that has started receives a page whose next_offset is null
WalkEnds == (reqs # <<>>) ~> WalkDone
\* the pages of a walk that ended list every application exactly once
WalkCovers ==
    WalkDone => \A a \in ListedApplications(Walker, "", 0) :
                   Cardinality(ListedAt(a.id)) = 1

\* C30: a walk that has started receives a page whose next_offset is null,
\* and the pages it has received by then list every application of the list
\* exactly once.
C30_PageWalkTerminates == WalkEnds /\ []WalkCovers

====
